---------------------------- MODULE Spec2Model ----------------------------
(***************************************************************************)
(* State-machine model of the card_game rendering core:                    *)
(*   - the render system and RenderState (src/src/render_system.rs),       *)
(*   - the frame limiter and fixed-step update loop (src/src/time.rs),     *)
(*   - the event handler of the game (src/src/game.rs),                    *)
(*   - the geometry, texture and shader libraries                          *)
(*     (src/src/geometry_library.rs, texture_library.rs,                   *)
(*     shader_library.rs).                                                 *)
(*                                                                         *)
(* The specifications share the variables:                                 *)
(*   Spec       the game as it runs: the world built by Game::new, the     *)
(*              clock, and one action per kind of event handled by         *)
(*              Game::handle_event;                                        *)
(*   SpecScene  the render system run against every scene the entity store *)
(*              can hold (entities spawned and despawned between ticks).   *)
(*   SpecDraw   the render system run against scenes of several objects,   *)
(*              with and without a texture;                                *)
(*   SpecGeometry       MeshData::from_file on every small model file;     *)
(*   SpecShaderBuilder  chains of ShaderBuilder calls ending in build;     *)
(*   SpecShaderLibrary  ShaderLibraryBuilder calls, build, and get on the  *)
(*              three libraries.                                           *)
(*                                                                         *)
(* Floating point values are modelled by integers; a 4-vector is a         *)
(* 4-tuple, a 4x4 matrix a 4-tuple of rows.  A GPU buffer is the sequence  *)
(* of its 16-byte words (one 4-vector each), in queue order: a             *)
(* queue.write_buffer is visible to everything submitted after it.         *)
(***************************************************************************)
EXTENDS Integers, Sequences, FiniteSets, TLC

VARIABLES
    main_cameras,   \* result of Query<(&Camera, &Transform, &MainCamera)>
    objects,        \* result of Query<(&RenderGeometry, &Transform, Option<&Texture>)>
    global_lights,  \* result of Query<&GlobalLight>
    point_lights,   \* result of Query<(&PointLight, &Transform)>
    spot_lights,    \* result of Query<(&SpotLight, &Transform)>
    state,          \* the RenderState resource
    time,           \* the TimeResource resource
    now,            \* the monotonic clock read by Instant::now()
    redraw_pending, \* the window has an undelivered redraw request
    control_flow,   \* what the last handle_event returned
    panicked,       \* the process has panicked
    gpu_ops,        \* operations issued by the step just taken, if it was a call
    last_call,      \* which call that was, and the inputs that decided its path
    last_yes,       \* clock reading at which frame_criteria last said Yes (-1: never)
    dropped_frames, \* why runs of the render system have dropped their frame so far
    obj_file,       \* what tobj::load_obj yields for the mesh file being loaded
    mesh_load,      \* outcome of MeshData::from_file on it
    shader_builder, \* the ShaderBuilder of the chain under way
    builder_log,    \* the calls made on that chain, ShaderBuilder::new first
    shader,         \* the Shader last built by ShaderBuilder::build
    library_builder,\* ShaderLibraryBuilder::builders
    shader_ids,     \* the ids returned by add / add_builder, with the call's source path
    shader_library, \* ShaderLibrary::shaders, once built
    lib_call,       \* the library call of the step just taken, and its result
    texture_file,   \* what the texture file being loaded holds
    texture_load,   \* outcome of Texture::from_file on it
    executor        \* the thread inside block_on, its future and its park token

scene_vars == <<main_cameras, objects, global_lights, point_lights, spot_lights>>
game_vars  == <<time, now, redraw_pending, control_flow, last_yes>>
vars == <<main_cameras, objects, global_lights, point_lights, spot_lights,
          state, time, now, redraw_pending, control_flow, panicked, gpu_ops, last_call,
          last_yes, dropped_frames, obj_file, mesh_load, shader_builder, builder_log,
          shader, library_builder, shader_ids, shader_library, lib_call,
          texture_file, texture_load, executor>>
io_vars  == <<texture_file, texture_load, executor>>
lib_vars == <<obj_file, mesh_load, shader_builder, builder_log, shader, library_builder,
              shader_ids, shader_library, lib_call, io_vars>>

-----------------------------------------------------------------------------
(* Bounds of the model. *)

MaxCameras     == 2   \* main-camera entities in the scene
MaxObjects     == 1   \* renderable objects in the scene (SpecScene)
MaxPointLights == 9   \* point lights in the scene
MaxOtherLights == 1   \* global lights, and spot lights, in the scene
MaxNow         == 4   \* the clock runs from 0 to MaxNow
MaxDt          == 2   \* update_dt and frame_dt are 1..MaxDt
MaxGap         == 1   \* clock ticks between the two clock reads of frame_criteria
MaxTriangles   == 2   \* triangles of a mesh file (SpecGeometry)
MaxDrawObjects == 3   \* renderable objects in the scene (SpecDraw)
MaxSetterCalls == 3   \* setter calls in one ShaderBuilder chain (SpecShaderBuilder)
MaxShaders     == 2   \* shaders added to one ShaderLibraryBuilder (SpecShaderLibrary)
MaxPixelDim    == 2   \* width and height of a texture file's image
MaxPixelDepth  == 1   \* pixel depth a texture file's header may state
MaxLevelCount  == 2   \* mip levels a texture file's header may state
MaxFileLen     == 5   \* bytes of a shader source file
MaxSpirvWords  == 2   \* 32-bit words of a compiled shader
MaxCoord       == 1   \* largest coordinate of the main camera's translation
MaxPower       == 2   \* largest power of a light
MaxPolls       == 3   \* polls of one future after which park returns only when unparked
MaxWakes       == 1   \* wakes of one future that come before it is ready

(* Program constants. *)

MAX_GLOBAL_LIGHTS == 8
MAX_POINT_LIGHTS  == 8
MAX_SPOT_LIGHTS   == 8

-----------------------------------------------------------------------------
(* Vectors, matrices, isometries. *)

Vec4Zero == <<0, 0, 0, 0>>

Dot4(a, b) == a[1] * b[1] + a[2] * b[2] + a[3] * b[3] + a[4] * b[4]

Col(m, j) == <<m[1][j], m[2][j], m[3][j], m[4][j]>>

\* Matrix4 * Matrix4
MatMul(a, b) == [i \in 1..4 |-> [j \in 1..4 |-> Dot4(a[i], Col(b, j))]]

\* An Isometry3 is a rotation followed by a translation.  Rotations are
\* quarter turns about the z axis, so that every matrix has integer entries:
\* [translation |-> <<x, y, z>>, rotation |-> q] with q in 0..3.
Isometry(t, q) == [translation |-> t, rotation |-> q]

\* Isometry3::translation(x, y, z)
Isometry_translation(x, y, z) == Isometry(<<x, y, z>>, 0)

\* the 3x3 matrix of q quarter turns about z
RotZ(q) ==
    CASE q = 0 -> << <<1, 0, 0>>, <<0, 1, 0>>, <<0, 0, 1>> >>
      [] q = 1 -> << <<0, -1, 0>>, <<1, 0, 0>>, <<0, 0, 1>> >>
      [] q = 2 -> << <<-1, 0, 0>>, <<0, -1, 0>>, <<0, 0, 1>> >>
      [] q = 3 -> << <<0, 1, 0>>, <<-1, 0, 0>>, <<0, 0, 1>> >>

RotVec(q, v) ==
    [i \in 1..3 |-> RotZ(q)[i][1] * v[1] + RotZ(q)[i][2] * v[2] + RotZ(q)[i][3] * v[3]]

\* Isometry3::inverse()
IsometryInverse(iso) ==
    LET q == (4 - iso.rotation) % 4
    IN  Isometry(RotVec(q, <<0 - iso.translation[1], 0 - iso.translation[2],
                            0 - iso.translation[3]>>), q)

\* Isometry3::to_matrix(): the homogeneous 4x4 matrix
IsometryToMatrix(iso) ==
    LET r == RotZ(iso.rotation)
        t == iso.translation
    IN  << <<r[1][1], r[1][2], r[1][3], t[1]>>,
           <<r[2][1], r[2][2], r[2][3], t[2]>>,
           <<r[3][1], r[3][2], r[3][3], t[3]>>,
           <<0, 0, 0, 1>> >>

\* Isometry3::append_rotation_wrt_center_mut(rot): rotate in place, by one
\* quarter turn
AppendRotationWrtCenter(iso) == [iso EXCEPT !.rotation = (@ + 1) % 4]

\* bytemuck::cast_slice of a column-major Matrix4: four words, one per column
MatrixWords(m) == <<Col(m, 1), Col(m, 2), Col(m, 3), Col(m, 4)>>

-----------------------------------------------------------------------------
(* Sequences. *)

\* (mutant) the last n items instead of the first n
Take_last(s, n) == SubSeq(s, IF Len(s) < n THEN 1 ELSE Len(s) - n + 1, Len(s))

\* Iterator::take(n).collect()
Take(s, n) == SubSeq(s, 1, IF Len(s) < n THEN Len(s) ELSE n)

\* Iterator::map(f).collect()
MapSeq(f(_), s) == [i \in 1..Len(s) |-> f(s[i])]

RECURSIVE Flatten(_)
Flatten(ss) == IF ss = <<>> THEN <<>> ELSE Head(ss) \o Flatten(Tail(ss))

-----------------------------------------------------------------------------
(* Components held by the entity store (src/src/common_component.rs). *)

\* Perspective3::as_matrix(): the shape of a perspective projection, with
\* integer entries.
PerspectiveMatrix ==
    << <<1, 0, 0, 0>>,
       <<0, 1, 0, 0>>,
       <<0, 0, -1, -1>>,
       <<0, 0, -1, 0>> >>

\* the main camera spawned by Game::new
GameCamera == [projection |-> PerspectiveMatrix, isometry |-> Isometry_translation(3, 0, 0)]

\* the k-th main camera spawned: the first is the camera of Game::new
CameraEntity(k) ==
    IF k = 1 THEN GameCamera
    ELSE [projection |-> PerspectiveMatrix, isometry |-> Isometry(<<0, k, 0>>, k % 4)]

\* the k-th point light spawned, with its Transform
PointLightEntity(k) ==
    [color |-> <<1, 1, 1>>, power |-> k, radius |-> 1, translation |-> <<k, 0, 0>>]

\* the k-th global light spawned
GlobalLightEntity(k) ==
    [color |-> <<1, 1, 1>>, power |-> 100 + k, direction |-> <<1, 1, 1>>]

\* the k-th spot light spawned, with its Transform
SpotLightEntity(k) ==
    [color |-> <<1, 1, 1>>, power |-> 200 + k, radius |-> 2,
     direction |-> <<0, 1, 0>>, cut_off |-> 3, translation |-> <<0, k, 0>>]

\* a renderable object: geometry id, Transform, optional texture id, and
\* whether it carries a Rotate component
ObjectEntity(g, iso, tex, rot) ==
    [geom_type |-> g, isometry |-> iso, texture |-> tex, rotate |-> rot]

-----------------------------------------------------------------------------
(* GPU-side records (src/src/data_types.rs). *)

GlobalLightData_default == [color |-> Vec4Zero, direction |-> <<1, 0, 0, 0>>]
PointLightData_default  == [position |-> Vec4Zero, color |-> Vec4Zero]
SpotLightData_default   ==
    [position |-> Vec4Zero, color |-> Vec4Zero, direction |-> <<1, 0, 0, 1>>]

GlobalLightData_from(gl) ==
    [direction |-> <<gl.direction[1], gl.direction[2], gl.direction[3], 0>>,
     color     |-> <<gl.color[1], gl.color[2], gl.color[3], gl.power>>]

\* (mutant) radius and power change places
PointLightData_from_swapped(pl) ==
    [position |-> <<pl.translation[1], pl.translation[2], pl.translation[3], pl.power>>,
     color    |-> <<pl.color[1], pl.color[2], pl.color[3], pl.radius>>]

PointLightData_from(pl) ==
    [position |-> <<pl.translation[1], pl.translation[2], pl.translation[3], pl.radius>>,
     color    |-> <<pl.color[1], pl.color[2], pl.color[3], pl.power>>]

SpotLightData_from(sl) ==
    [position  |-> <<sl.translation[1], sl.translation[2], sl.translation[3], sl.radius>>,
     color     |-> <<sl.color[1], sl.color[2], sl.color[3], sl.power>>,
     direction |-> <<sl.direction[1], sl.direction[2], sl.direction[3], sl.cut_off>>]

\* #[repr(C)] layouts, in 16-byte words
GlobalLightWords(d) == <<d.color, d.direction>>
PointLightWords(d)  == <<d.position, d.color>>
SpotLightWords(d)   == <<d.position, d.color, d.direction>>
CameraWords(c)      == MatrixWords(c.view_projection) \o <<c.position>>

\* std::mem::size_of, in 16-byte words
SizeOfGlobalLight == 2
SizeOfPointLight  == 2
SizeOfSpotLight   == 3
SizeOfCamera      == 5

-----------------------------------------------------------------------------
(* Geometry library (src/src/geometry_library.rs). *)

\* parallel_enum_values! { GeometryId, GEOMETRY_PATH_PAIRS }
GEOMETRY_PATH_PAIRS ==
    << <<"TorusGeometry", "model/torus.obj">>,
       <<"SceneTestGeometry", "model/scene_test.obj">> >>

GeometryIds == {GEOMETRY_PATH_PAIRS[i][1] : i \in 1..Len(GEOMETRY_PATH_PAIRS)}

\* the largest value of a u16
U16_MAX == 65535

\* (mutant) `*i as u16`: the index is truncated to its low 16 bits
u32_as_u16(i) == [ok |-> TRUE, value |-> i % (U16_MAX + 1)]

\* u16::try_from(u32)
u32_try_into_u16(i) ==
    IF i <= U16_MAX THEN [ok |-> TRUE, value |-> i] ELSE [ok |-> FALSE, value |-> 0]

\* (mutant) every triple is rotated instead of reversed
reverse_indices_rotated(indices) ==
    [i \in 1..Len(indices) |-> indices[3 * ((i - 1) \div 3) + ((i + 1) % 3) + 1]]

\* reverse_indices(&mut indices), past its assert: chunks_mut(3), each reversed
reverse_indices(indices) ==
    [i \in 1..Len(indices) |-> indices[3 * ((i - 1) \div 3) + (2 - ((i - 1) % 3)) + 1]]

\* transmute_vertex_data(mesh): positions, normals and texcoords zipped, the
\* mesh holding them in chunks already
transmute_vertex_data(mesh) ==
    LET n == IF Len(mesh.positions) <= Len(mesh.normals)
             THEN Len(mesh.positions) ELSE Len(mesh.normals)
        m == IF n <= Len(mesh.texcoords) THEN n ELSE Len(mesh.texcoords)
    IN  [k \in 1..m |->
            [ position |-> <<mesh.positions[k][1], mesh.positions[k][2],
                             mesh.positions[k][3], 1>>,
              normal   |-> <<mesh.normals[k][1], mesh.normals[k][2],
                             mesh.normals[k][3], 0>>,
              texture  |-> mesh.texcoords[k] ]]

NoMesh == [vertex_len |-> 0, index_len |-> 0, vertices |-> <<>>, indices |-> <<>>]

\* MeshData::from_file(device, path), on what tobj::load_obj yields for the
\* file: the MeshData, the buffers created on the device, and whether the
\* load panicked
MeshData_from_file(obj) ==
    IF obj.result # "Ok" \/ obj.models = <<>> THEN
        [ panicked |-> TRUE, ops |-> <<>>, mesh |-> NoMesh ]
    ELSE
        LET mesh      == obj.models[1]
            converted == [i \in 1..Len(mesh.indices) |-> u32_try_into_u16(mesh.indices[i])]
        IN  IF \E i \in 1..Len(converted) : ~converted[i].ok THEN
                [ panicked |-> TRUE, ops |-> <<>>, mesh |-> NoMesh ]
            ELSE IF Len(converted) % 3 # 0 THEN
                [ panicked |-> TRUE, ops |-> <<>>, mesh |-> NoMesh ]
            ELSE
                LET index_data  == reverse_indices(
                                       [i \in 1..Len(converted) |-> converted[i].value])
                    vertex_data == transmute_vertex_data(mesh)
                IN  [ panicked |-> FALSE,
                      ops |-> << [op |-> "create_buffer_init",
                                  arg |-> <<"VERTEX", vertex_data>>],
                                 [op |-> "create_buffer_init",
                                  arg |-> <<"INDEX", index_data>>] >>,
                      mesh |-> [ vertex_len |-> Len(vertex_data),
                                 index_len |-> Len(index_data),
                                 vertices |-> vertex_data,
                                 indices |-> index_data ] ]

\* a mesh as tobj yields it (single_index, triangulate): one position,
\* normal and texcoord per vertex
ObjMesh(indices, vertex_count) ==
    [ indices   |-> indices,
      positions |-> [k \in 1..vertex_count |-> <<k, 0, 0>>],
      normals   |-> [k \in 1..vertex_count |-> <<0, 0, 1>>],
      texcoords |-> [k \in 1..vertex_count |-> <<k, k>>] ]

ObjFile(indices, vertex_count) ==
    [result |-> "Ok", models |-> <<ObjMesh(indices, vertex_count)>>]

\* the two models of the catalog, as small stand-ins: a quad and a
\* tetrahedron without its base
ModelFiles(path) ==
    IF path = "model/torus.obj" THEN ObjFile(<<0, 1, 2, 2, 1, 3>>, 4)
    ELSE ObjFile(<<0, 1, 2, 0, 2, 3, 0, 3, 1>>, 4)

\* GeometryLibrary::load_all(device): every pair of the catalog, loaded
GeometryLibrary_load_all ==
    [id \in GeometryIds |->
        LET i == CHOOSE j \in 1..Len(GEOMETRY_PATH_PAIRS) : GEOMETRY_PATH_PAIRS[j][1] = id
        IN  MeshData_from_file(ModelFiles(GEOMETRY_PATH_PAIRS[i][2])).mesh]

\* HashMap::get(&id).expect(..): the entry, or a panic
HashMap_get_expect(map, id) ==
    IF id \in DOMAIN map THEN [panicked |-> FALSE, entry |-> map[id]]
    ELSE [panicked |-> TRUE, entry |-> [none |-> TRUE]]

\* GeometryLibrary::get(&self, id)
GeometryLibrary_get(lib, id) == HashMap_get_expect(lib, id)

-----------------------------------------------------------------------------
(* Texture library, as the render system uses it: loaded at start-up, and  *)
(* looked up with the optional texture handle of an object.                *)

\* Option<TextureId>::None
NoTexture == "None"

\* the texture handles of the catalog
TextureIds == {"CrabTexture", "CurlyBraceTexture"}

\* the library loaded at start-up: one bind group per catalog entry, and the
\* one of the default, untextured material
TextureLibrary_load_all ==
    [id \in TextureIds \cup {NoTexture} |->
        [bind_group |-> IF id = NoTexture THEN <<"texture bind group", "default">>
                        ELSE <<"texture bind group", id>>]]

\* TextureLibrary::get(&self, id), with the handle of a texture
TextureLibrary_get_id(lib, id) == HashMap_get_expect(lib, id)

\* the lookup with an optional handle: an absent handle takes the default
\* material, an unregistered one is fatal
TextureLibrary_get(lib, tex) ==
    IF tex \in DOMAIN lib THEN [panicked |-> FALSE, entry |-> lib[tex]]
    ELSE [panicked |-> TRUE, entry |-> [none |-> TRUE]]

-----------------------------------------------------------------------------
(* Shader library (src/src/shader_library.rs).  A path or a name is the     *)
(* sequence of its pieces, the separators "/" and "." being pieces of       *)
(* their own: "shader/vertex_shader.vs" is                                  *)
(* <<"shader", "/", "vertex_shader", ".", "vs">>.                           *)

None == "None"

\* no ShaderBuilder, no Shader, and the ShaderLibrary not built yet
NoBuilder == [none |-> TRUE]
NoShader  == [none |-> TRUE]
NotBuilt  == [built |-> FALSE, shaders |-> <<>>]

\* the last position of `piece` in `seq`, or 0
LastIndexOf(seq, piece) ==
    IF \E i \in 1..Len(seq) : seq[i] = piece
    THEN CHOOSE i \in 1..Len(seq) : seq[i] = piece /\ \A j \in (i + 1)..Len(seq) : seq[j] # piece
    ELSE 0

\* Path::file_name(): the final component, if it is a normal one
Path_file_name(path) ==
    LET p == IF path # <<>> /\ path[Len(path)] = "/" /\ Len(path) > 1
             THEN SubSeq(path, 1, Len(path) - 1) ELSE path
        f == SubSeq(p, LastIndexOf(p, "/") + 1, Len(p))
    IN  IF f = <<>> \/ f = <<".", ".">> \/ f = <<"/">> THEN None ELSE f

\* Path::extension(): what follows the last "." of the file name, unless
\* the file name has none or only begins with one
Path_extension(path) ==
    LET f == Path_file_name(path)
    IN  IF f = None THEN None
        ELSE IF LastIndexOf(f, ".") <= 1 THEN None
        ELSE SubSeq(f, LastIndexOf(f, ".") + 1, Len(f))

\* Path::file_stem(): the file name without its extension
Path_file_stem(path) ==
    LET f == Path_file_name(path)
    IN  IF f = None THEN None
        ELSE IF LastIndexOf(f, ".") <= 1 THEN f
        ELSE SubSeq(f, 1, LastIndexOf(f, ".") - 1)

ShaderKinds == {"Vertex", "Fragment", "Compute", "Geometry"}

\* (mutant) an extension that is not known is taken for a vertex shader
to_shader_kind_fallback(ext) ==
    CASE ext = <<"vs">> -> "Vertex"
      [] ext = <<"fs">> -> "Fragment"
      [] ext = <<"cs">> -> "Compute"
      [] ext = <<"gs">> -> "Geometry"
      [] OTHER -> "Vertex"

\* <&str as ToShaderKind>::to_shader_kind
to_shader_kind(ext) ==
    CASE ext = <<"vs">> -> "Vertex"
      [] ext = <<"fs">> -> "Fragment"
      [] ext = <<"cs">> -> "Compute"
      [] ext = <<"gs">> -> "Geometry"
      [] OTHER -> "panic"

NoShaderBuilder ==
    [name |-> None, source_path |-> None, entry_point |-> None, shader_kind |-> None]

\* (mutant) the name is the file stem
ShaderBuilder_new_stem(source_path) ==
    IF Path_file_name(source_path) = None \/ Path_extension(source_path) = None
       \/ to_shader_kind(Path_extension(source_path)) = "panic"
    THEN [panicked |-> TRUE, builder |-> NoShaderBuilder]
    ELSE [panicked |-> FALSE,
          builder |-> [ name |-> Path_file_stem(source_path),
                        source_path |-> source_path,
                        entry_point |-> <<"main">>,
                        shader_kind |-> to_shader_kind(Path_extension(source_path)) ]]

\* ShaderBuilder::new(source_path)
ShaderBuilder_new(source_path) ==
    IF Path_file_name(source_path) = None \/ Path_extension(source_path) = None
       \/ to_shader_kind(Path_extension(source_path)) = "panic"
    THEN [panicked |-> TRUE, builder |-> NoShaderBuilder]
    ELSE [panicked |-> FALSE,
          builder |-> [ name |-> Path_file_name(source_path),
                        source_path |-> source_path,
                        entry_point |-> <<"main">>,
                        shader_kind |-> to_shader_kind(Path_extension(source_path)) ]]

\* ShaderBuilder::name(self, name)
ShaderBuilder_name(b, name) == [b EXCEPT !.name = name]

\* ShaderBuilder::source_path(self, source_path)
ShaderBuilder_source_path(b, source_path) == [b EXCEPT !.source_path = source_path]

\* (mutant) the entry point is stored as the name
ShaderBuilder_entry_point_as_name(b, entry_point) == [b EXCEPT !.name = entry_point]

\* ShaderBuilder::entry_point(self, entry_point)
ShaderBuilder_entry_point(b, entry_point) == [b EXCEPT !.entry_point = entry_point]

\* ShaderBuilder::shader_kind(self, shader_kind)
ShaderBuilder_shader_kind(b, shader_kind) == [b EXCEPT !.shader_kind = shader_kind]

\* the shader sources on disk
ShaderFiles ==
    { <<"shader", "/", "vertex_shader", ".", "vs">>,
      <<"shader", "/", "fragment_shader", ".", "fs">>,
      <<"shader", "/", "light", ".", "cs">>,
      <<"shader", "/", "fur", ".", "shell", ".", "gs">> }

\* a shader file: whether File::open finds it, whether read_to_string takes
\* it for UTF-8, its length in bytes, and the 32-bit words shaderc compiles
\* it to (0: it does not compile)
SourceFile(exists, utf8, len, words) ==
    [exists |-> exists, utf8 |-> utf8, len |-> len, words |-> words]

\* the outcome of Shader::all when it panics with `message`
ShaderPanic(message, source_path) ==
    [panicked |-> TRUE, message |-> <<message, source_path>>, ops |-> <<>>,
     shader |-> NoShader]

\* (mutant) a file whose length is not a multiple of 4 bytes is refused
Shader_load_aligned(source_path, name, entry_point, shader_kind, file) ==
    IF ~file.exists THEN ShaderPanic("failed to open shader file", source_path)
    ELSE IF ~file.utf8 THEN ShaderPanic("failed to read shader file", source_path)
    ELSE IF file.len % 4 # 0 THEN ShaderPanic("misaligned shader file", source_path)
    ELSE IF file.words = 0 THEN ShaderPanic("failed to compile shader at", source_path)
    ELSE [panicked |-> FALSE, message |-> <<"none", source_path>>,
          ops |-> << [op |-> "create_shader_module",
                      arg |-> [label |-> name, bytes |-> 4 * file.words]] >>,
          shader |-> [ name |-> name,
                       source_path |-> source_path,
                       entry_point |-> entry_point,
                       shader_kind |-> shader_kind,
                       handle |-> [label |-> name, source |-> source_path,
                                   kind |-> shader_kind, entry |-> entry_point] ]]

\* Shader::all(device, source_path, name, entry_point, shader_kind), on what
\* the file at source_path holds: the file is opened, read as text,
\* compiled, and the words of the artifact are made a shader module
Shader_load(source_path, name, entry_point, shader_kind, file) ==
    IF ~file.exists THEN ShaderPanic("failed to open shader file", source_path)
    ELSE IF ~file.utf8 THEN ShaderPanic("failed to read shader file", source_path)
    ELSE IF file.words = 0 THEN ShaderPanic("failed to compile shader at", source_path)
    ELSE [panicked |-> FALSE, message |-> <<"none", source_path>>,
          ops |-> << [op |-> "create_shader_module",
                      arg |-> [label |-> name, bytes |-> 4 * file.words]] >>,
          shader |-> [ name |-> name,
                       source_path |-> source_path,
                       entry_point |-> entry_point,
                       shader_kind |-> shader_kind,
                       handle |-> [label |-> name, source |-> source_path,
                                   kind |-> shader_kind, entry |-> entry_point] ]]

\* Shader::all on the shader sources on disk (`compiles`: whether shaderc
\* accepts the file)
Shader_all(source_path, name, entry_point, shader_kind, compiles) ==
    LET r == Shader_load(source_path, name, entry_point, shader_kind,
                         SourceFile(source_path \in ShaderFiles, TRUE, 1,
                                    IF compiles THEN 1 ELSE 0))
    IN  [panicked |-> r.panicked, shader |-> r.shader]

\* Shader::new(device, source_path): ShaderBuilder::new(source_path).build(device)
Shader_new(source_path, file) ==
    LET b == ShaderBuilder_new(source_path)
    IN  IF b.panicked THEN ShaderPanic("no file name or extension in shader source path", source_path)
        ELSE Shader_load(b.builder.source_path, b.builder.name, b.builder.entry_point,
                         b.builder.shader_kind, file)

\* ShaderBuilder::build(self, device)
ShaderBuilder_build(b, compiles) ==
    Shader_all(b.source_path, b.name, b.entry_point, b.shader_kind, compiles)

\* (mutant) the id is the length of the list after the push
ShaderLibraryBuilder_push_len(builders, builder) ==
    [builders |-> Append(builders, builder), id |-> Len(builders) + 1]

\* self.builders.push(builder); self.builders.len() - 1
ShaderLibraryBuilder_push(builders, builder) ==
    [builders |-> Append(builders, builder), id |-> Len(Append(builders, builder)) - 1]

\* ShaderLibraryBuilder::add(&mut self, source_path)
ShaderLibraryBuilder_add(builders, source_path) ==
    IF ShaderBuilder_new(source_path).panicked
    THEN [panicked |-> TRUE, builders |-> builders, id |-> -1]
    ELSE [panicked |-> FALSE,
          builders |-> ShaderLibraryBuilder_push(
                           builders, ShaderBuilder_new(source_path).builder).builders,
          id |-> ShaderLibraryBuilder_push(
                     builders, ShaderBuilder_new(source_path).builder).id]

\* ShaderLibraryBuilder::add_builder(&mut self, builder)
ShaderLibraryBuilder_add_builder(builders, builder) ==
    [panicked |-> FALSE,
     builders |-> ShaderLibraryBuilder_push(builders, builder).builders,
     id |-> ShaderLibraryBuilder_push(builders, builder).id]

\* ShaderLibraryBuilder::build(self, device): every builder built, in order
ShaderLibraryBuilder_build(builders, compiles) ==
    LET built == [k \in 1..Len(builders) |-> ShaderBuilder_build(builders[k], compiles)]
    IN  IF \E k \in 1..Len(built) : built[k].panicked
        THEN [panicked |-> TRUE, library |-> NotBuilt]
        ELSE [panicked |-> FALSE,
              library |-> [built |-> TRUE,
                           shaders |-> [k \in 1..Len(built) |-> built[k].shader]]]

\* (mutant) an id past the end yields the last shader
ShaderLibrary_get_clamped(shaders, id) ==
    IF id < Len(shaders) THEN [panicked |-> FALSE, entry |-> shaders[id + 1]]
    ELSE IF shaders # <<>> THEN [panicked |-> FALSE, entry |-> shaders[Len(shaders)]]
    ELSE [panicked |-> TRUE, entry |-> NoShader]

\* ShaderLibrary::get(&self, id): self.shaders.get(id).expect(..)
ShaderLibrary_get(shaders, id) ==
    IF id < Len(shaders) THEN [panicked |-> FALSE, entry |-> shaders[id + 1]]
    ELSE [panicked |-> TRUE, entry |-> NoShader]

-----------------------------------------------------------------------------
(* RenderState (src/src/render_system.rs). *)

\* wgpu::SurfaceError, and "Ok" for a frame
SurfaceResults == {"Ok", "Outdated", "Timeout", "Lost", "OutOfMemory"}

Op(name, a) == [op |-> name, arg |-> a]

\* Queue::write_buffer(buffer, offset, data); offset counted in words
write_buffer(buf, offset, data) ==
    [i \in 1..Len(buf) |->
        IF i > offset /\ i <= offset + Len(data) THEN data[i - offset] ELSE buf[i]]

\* Device::create_buffer: zero-initialised
create_buffer(size) == [i \in 1..size |-> Vec4Zero]

global_light_size   == SizeOfGlobalLight * 8
point_light_size    == SizeOfPointLight * 8
spot_light_size     == SizeOfSpotLight * 8
global_light_offset == 0
point_light_offset  == global_light_size
spot_light_offset   == point_light_offset + point_light_size
light_buffer_size   == global_light_size + point_light_size + spot_light_size

\* the entries of "Light Bind Group": binding k shows the light buffer from
\* this offset to its end (size: None)
light_bind_group_entries ==
    [ global |-> [binding |-> 0, offset |-> global_light_offset],
      point  |-> [binding |-> 1, offset |-> point_light_offset],
      spot   |-> [binding |-> 2, offset |-> spot_light_offset] ]

\* RenderState::init(window), for a window of inner size `size`
RenderState_init(size) ==
    [ surface_config |->
          [usage |-> "RENDER_ATTACHMENT", format |-> "swapchain_format",
           width |-> size.width, height |-> size.height, present_mode |-> "Mailbox"],
      render_pipeline |-> "render_pipeline",
      camera_buffer |-> create_buffer(SizeOfCamera),
      light_buffer |-> create_buffer(light_buffer_size),
      light_bind_group |-> light_bind_group_entries,
      texture_library |-> TextureLibrary_load_all,
      geometry_library |-> GeometryLibrary_load_all,
      shader_library |-> "_shader_library",
      depth_stencil_texture |-> [width |-> size.width, height |-> size.height] ]

\* (mutant) the draw covers as many indices as the mesh has vertices
DrawObject_vertex_len(st, o) ==
    LET tex  == TextureLibrary_get(st.texture_library, o[3])
        mesh == GeometryLibrary_get(st.geometry_library, o[1])
    IN  [ panicked |-> FALSE,
          ops |-> << Op("set_bind_group", <<1, tex.entry.bind_group>>),
                     Op("set_push_constants", o[2]),
                     Op("set_vertex_buffer", <<0, mesh.entry.vertices>>),
                     Op("set_index_buffer", <<mesh.entry.indices, "Uint16">>),
                     Op("draw_indexed", [indices |-> <<0, mesh.entry.vertex_len>>,
                                         base_vertex |-> 0, instances |-> <<0, 1>>]) >> ]

\* (mutant) an object without a texture is passed over
DrawObject_textured_only(st, o) ==
    LET tex  == TextureLibrary_get(st.texture_library, o[3])
        mesh == GeometryLibrary_get(st.geometry_library, o[1])
    IN  IF o[3] = NoTexture THEN [panicked |-> FALSE, ops |-> <<>>]
        ELSE
        [ panicked |-> FALSE,
          ops |-> << Op("set_bind_group", <<1, tex.entry.bind_group>>),
                     Op("set_push_constants", o[2]),
                     Op("set_vertex_buffer", <<0, mesh.entry.vertices>>),
                     Op("set_index_buffer", <<mesh.entry.indices, "Uint16">>),
                     Op("draw_indexed", [indices |-> <<0, mesh.entry.index_len>>,
                                         base_vertex |-> 0, instances |-> <<0, 1>>]) >> ]

\* the body of the `for (id, model_t, tex) in objects` loop, for one object:
\* the calls recorded into the pass, and whether a lookup panicked
DrawObject(st, o) ==
    LET tex  == TextureLibrary_get(st.texture_library, o[3])
        mesh == GeometryLibrary_get(st.geometry_library, o[1])
    IN  IF tex.panicked THEN
            [ panicked |-> TRUE, ops |-> <<>> ]
        ELSE IF mesh.panicked THEN
            [ panicked |-> TRUE,
              ops |-> << Op("set_bind_group", <<1, tex.entry.bind_group>>) >> ]
        ELSE
            [ panicked |-> FALSE,
              ops |-> << Op("set_bind_group", <<1, tex.entry.bind_group>>),
                         Op("set_push_constants", o[2]),
                         Op("set_vertex_buffer", <<0, mesh.entry.vertices>>),
                         Op("set_index_buffer", <<mesh.entry.indices, "Uint16">>),
                         Op("draw_indexed", [indices |-> <<0, mesh.entry.index_len>>,
                                             base_vertex |-> 0,
                                             instances |-> <<0, 1>>]) >> ]

\* (mutant) an outdated surface is fatal like any other error
match_current_texture_outdated_fatal(acquire) ==
    CASE acquire = "Ok" -> "frame"
      [] OTHER -> "panic"

\* (mutant) a lost surface skips the frame like an outdated one
match_current_texture_lost_skipped(acquire) ==
    CASE acquire = "Ok" -> "frame"
      [] acquire \in {"Outdated", "Lost"} -> "return"
      [] OTHER -> "panic"

\* the match on surface.get_current_texture() in RenderState::render
match_current_texture(acquire) ==
    CASE acquire = "Ok" -> "frame"
      [] acquire = "Outdated" -> "return"
      [] OTHER -> "panic"

\* (mutant) the frame is presented before the commands are submitted
RenderState_render_present_first(st, objs, acquire) ==
    IF match_current_texture(acquire) = "frame" THEN
        LET draws == [k \in 1..Len(objs) |-> DrawObject(st, objs[k])]
            bad   == {k \in 1..Len(objs) : draws[k].panicked}
            last  == IF bad = {} THEN Len(objs)
                     ELSE CHOOSE k \in bad : \A j \in bad : k <= j
            head  == << Op("get_current_texture", acquire),
                        Op("begin_render_pass", [color |-> "BLACK", depth |-> 1]),
                        Op("set_pipeline", st.render_pipeline),
                        Op("set_bind_group", <<0, "camera_bind_group">>),
                        Op("set_bind_group", <<2, "light_bind_group">>) >>
            drawn == Flatten([k \in 1..last |-> draws[k].ops])
        IN  IF bad = {} THEN
                [ state |-> st,
                  ops |-> head \o drawn \o << Op("end_render_pass", 0),
                                              Op("present", 1),
                                              Op("submit", 1) >>,
                  panicked |-> FALSE ]
            ELSE
                [ state |-> st, ops |-> head \o drawn, panicked |-> TRUE ]
    ELSE IF match_current_texture(acquire) = "return" THEN
        [ state |-> st,
          ops |-> << Op("get_current_texture", acquire) >>,
          panicked |-> FALSE ]
    ELSE
        [ state |-> st,
          ops |-> << Op("get_current_texture", acquire) >>,
          panicked |-> TRUE ]

\* RenderState::render(&mut self, objects), with the outcome `acquire` of
\* surface.get_current_texture().  Yields the state, the operations issued
\* and whether the call panicked.
RenderState_render(st, objs, acquire) ==
    IF match_current_texture(acquire) = "frame" THEN
        LET draws == [k \in 1..Len(objs) |-> DrawObject(st, objs[k])]
            bad   == {k \in 1..Len(objs) : draws[k].panicked}
            last  == IF bad = {} THEN Len(objs)
                     ELSE CHOOSE k \in bad : \A j \in bad : k <= j
            head  == << Op("get_current_texture", acquire),
                        Op("begin_render_pass", [color |-> "BLACK", depth |-> 1]),
                        Op("set_pipeline", st.render_pipeline),
                        Op("set_bind_group", <<0, "camera_bind_group">>),
                        Op("set_bind_group", <<2, "light_bind_group">>) >>
            drawn == Flatten([k \in 1..last |-> draws[k].ops])
        IN  IF bad = {} THEN
                [ state |-> st,
                  ops |-> head \o drawn \o << Op("end_render_pass", 0),
                                              Op("submit", 1),
                                              Op("present", 1) >>,
                  panicked |-> FALSE ]
            ELSE
                [ state |-> st, ops |-> head \o drawn, panicked |-> TRUE ]
    ELSE IF match_current_texture(acquire) = "return" THEN
        [ state |-> st,
          ops |-> << Op("get_current_texture", acquire) >>,
          panicked |-> FALSE ]
    ELSE
        [ state |-> st,
          ops |-> << Op("get_current_texture", acquire) >>,
          panicked |-> TRUE ]

\* the closure mapping an object query item to (geom_type, matrix, t_id)
ObjectItem(o) == <<o.geom_type, IsometryToMatrix(o.isometry), o.texture>>

\* (mutant) the isometry is not inverted
CameraData_no_inverse(cam) ==
    [ view_projection |-> MatMul(cam.projection, IsometryToMatrix(cam.isometry)),
      position |-> <<cam.isometry.translation[1], cam.isometry.translation[2],
                     cam.isometry.translation[3], 1>> ]

\* data_types::Camera built from the main camera and its Transform
CameraData(cam) ==
    [ view_projection |->
          MatMul(cam.projection, IsometryToMatrix(IsometryInverse(cam.isometry))),
      position |-> <<cam.isometry.translation[1], cam.isometry.translation[2],
                     cam.isometry.translation[3], 1>> ]

\* (mutant) the array is the collected lights alone, with no default behind
PointLightArray_collected_only(lights) == lights

\* [PointLightData::default(); MAX_POINT_LIGHTS] with the collected lights
\* copied over its head
PointLightArray(lights) ==
    [i \in 1..MAX_POINT_LIGHTS |->
        IF i <= Len(lights) THEN lights[i] ELSE PointLightData_default]

\* (mutant) the first item of a query that has any
get_single_first(query) == IF Len(query) >= 1 THEN "Ok" ELSE "Err"

\* Query::get_single(): the single item of a query, or an error
get_single(query) == IF Len(query) = 1 THEN "Ok" ELSE "Err"

\* the render system, run on the results of its five queries
render(st, camera, objs, globals, points, spots, acquire) ==
    IF get_single(camera) = "Ok" THEN
        LET cam == CameraData(camera[1])
            gl  == Take(MapSeq(GlobalLightData_from, globals), MAX_GLOBAL_LIGHTS)
            pl  == Take(MapSeq(PointLightData_from, points), MAX_POINT_LIGHTS)
            sl  == Take(MapSeq(SpotLightData_from, spots), MAX_POINT_LIGHTS)
            point_light_data == PointLightArray(pl)
            light_words == Flatten(MapSeq(PointLightWords, point_light_data))
            st1 == [st EXCEPT !.camera_buffer = write_buffer(@, 0, CameraWords(cam))]
            st2 == [st1 EXCEPT !.light_buffer = write_buffer(@, 0, light_words)]
            r   == RenderState_render(st2, MapSeq(ObjectItem, objs), acquire)
        IN  IF Len(pl) <= MAX_POINT_LIGHTS THEN
                [ state |-> r.state,
                  ops |-> << Op("write_buffer", <<"camera_buffer", 0, CameraWords(cam)>>),
                             Op("write_buffer", <<"light_buffer", 0, light_words>>) >>
                          \o r.ops,
                  panicked |-> r.panicked,
                  collected |-> [global |-> gl, point |-> pl, spot |-> sl] ]
            ELSE
                [ state |-> st, ops |-> <<>>, panicked |-> TRUE,
                  collected |-> [global |-> gl, point |-> pl, spot |-> sl] ]
    ELSE
        [ state |-> st,
          ops |-> << Op("log_error", "failed to access main camera entity for render call") >>,
          panicked |-> FALSE,
          collected |-> [global |-> <<>>, point |-> <<>>, spot |-> <<>>] ]

\* (mutant) one non-zero dimension is enough to reconfigure
resize_if_needed_either(st, size) ==
    IF size.width > 0 \/ size.height > 0 THEN
        LET cfg == [st.surface_config EXCEPT !.width = size.width, !.height = size.height]
        IN  [ state |-> [st EXCEPT !.surface_config = cfg],
              ops |-> << Op("configure", cfg), Op("request_redraw", "resize_if_needed") >> ]
    ELSE
        [ state |-> st, ops |-> <<>> ]

\* (mutant) the height is not stored
resize_if_needed_width_only(st, size) ==
    IF size.width > 0 /\ size.height > 0 THEN
        LET cfg == [st.surface_config EXCEPT !.width = size.width]
        IN  [ state |-> [st EXCEPT !.surface_config = cfg],
              ops |-> << Op("configure", cfg), Op("request_redraw", "resize_if_needed") >> ]
    ELSE
        [ state |-> st, ops |-> <<>> ]

\* (mutant) the depth-stencil texture is made anew at the size of the window
resize_if_needed_with_depth(st, size) ==
    IF size.width > 0 /\ size.height > 0 THEN
        LET cfg == [st.surface_config EXCEPT !.width = size.width, !.height = size.height]
        IN  [ state |-> [st EXCEPT !.surface_config = cfg,
                                   !.depth_stencil_texture =
                                       [width |-> size.width, height |-> size.height]],
              ops |-> << Op("configure", cfg), Op("request_redraw", "resize_if_needed") >> ]
    ELSE
        [ state |-> st, ops |-> <<>> ]

\* RenderState::resize_if_needed(&mut self, size, window)
resize_if_needed(st, size) ==
    IF size.width > 0 /\ size.height > 0 THEN
        LET cfg == [st.surface_config EXCEPT !.width = size.width, !.height = size.height]
        IN  [ state |-> [st EXCEPT !.surface_config = cfg],
              ops |-> << Op("configure", cfg), Op("request_redraw", "resize_if_needed") >> ]
    ELSE
        [ state |-> st, ops |-> <<>> ]

-----------------------------------------------------------------------------
(* TimeResource and the run criteria (src/src/time.rs). *)

\* TimeResource::new(update_dt, frame_dt), created when the clock reads `at`
TimeResource_new(update_dt, frame_dt, at) ==
    [ update_dt |-> update_dt, frame_dt |-> frame_dt,
      ingame_time |-> 0, last_frame |-> at, unsimulated_time |-> 0 ]

\* (mutant) last_frame is not moved on a Yes
frame_criteria_keeps_last_frame(t, at, at2) ==
    LET elapsed == at - t.last_frame
    IN  IF elapsed >= t.frame_dt THEN
            [ time |-> [t EXCEPT !.unsimulated_time = @ + elapsed], run |-> "Yes" ]
        ELSE
            [ time |-> t, run |-> "No" ]

\* (mutant) the elapsed time is registered on a No as well
frame_criteria_counts_refused(t, at, at2) ==
    LET elapsed == at - t.last_frame
    IN  IF elapsed >= t.frame_dt THEN
            [ time |-> [t EXCEPT !.last_frame = at2,
                                 !.unsimulated_time = @ + elapsed],
              run |-> "Yes" ]
        ELSE
            [ time |-> [t EXCEPT !.unsimulated_time = @ + elapsed], run |-> "No" ]

\* frame_criteria: `at` is the clock when last_frame.elapsed() reads it,
\* `at2` the clock when Instant::now() reads it
frame_criteria(t, at, at2) ==
    LET elapsed == at - t.last_frame
    IN  IF elapsed >= t.frame_dt THEN
            [ time |-> [t EXCEPT !.last_frame = at2,
                                 !.unsimulated_time = @ + elapsed],
              run |-> "Yes" ]
        ELSE
            [ time |-> t, run |-> "No" ]

\* (mutant) an update needs more than update_dt of unsimulated time
update_criteria_strict(t) ==
    LET dt == t.update_dt
    IN  IF t.unsimulated_time > dt THEN
            [ time |-> [t EXCEPT !.unsimulated_time = @ - dt,
                                 !.ingame_time = @ + dt],
              run |-> "YesAndCheckAgain" ]
        ELSE
            [ time |-> t, run |-> "No" ]

\* update_criteria
update_criteria(t) ==
    LET dt == t.update_dt
    IN  IF t.unsimulated_time >= dt THEN
            [ time |-> [t EXCEPT !.unsimulated_time = @ - dt,
                                 !.ingame_time = @ + dt],
              run |-> "YesAndCheckAgain" ]
        ELSE
            [ time |-> t, run |-> "No" ]

-----------------------------------------------------------------------------
(* The game (src/src/game.rs). *)

\* the rotate system: every object with a Rotate component turns in place
rotate(objs) ==
    [i \in 1..Len(objs) |->
        IF objs[i].rotate
        THEN [objs[i] EXCEPT !.isometry = AppendRotationWrtCenter(@)]
        ELSE objs[i]]

\* update_schedule.run(world): the "update" stage runs its systems as long as
\* update_criteria answers YesAndCheckAgain.  `n` counts the runs so far.
RECURSIVE update_schedule_run(_, _, _)
update_schedule_run(t, objs, n) ==
    LET c == update_criteria(t)
    IN  IF c.run = "YesAndCheckAgain"
        THEN update_schedule_run(c.time, rotate(objs), n + 1)
        ELSE [time |-> c.time, objects |-> objs, updates |-> n]

\* (mutant) the update systems run at most once in a call, without catching up
update_as_needed_once(t, objs) ==
    LET c == update_criteria(t)
    IN  IF c.run = "YesAndCheckAgain"
        THEN [time |-> c.time, objects |-> rotate(objs), updates |-> 1]
        ELSE [time |-> c.time, objects |-> objs, updates |-> 0]

\* Game::update_as_needed
update_as_needed(t, objs) == update_schedule_run(t, objs, 0)

\* the renderable objects spawned by Game::new, in spawn order
GameObjects ==
    << ObjectEntity("SceneTestGeometry", Isometry_translation(0, -2, -5),
                    "CurlyBraceTexture", FALSE),
       ObjectEntity("TorusGeometry", Isometry_translation(0, 0, -5), "CrabTexture", TRUE),
       ObjectEntity("TorusGeometry", Isometry_translation(3, 0, -5), "CrabTexture", TRUE),
       ObjectEntity("TorusGeometry", Isometry_translation(6, 0, -5), "CrabTexture", TRUE) >>
    \o [i \in 1..10 |->
          ObjectEntity("TorusGeometry", Isometry_translation(i - 1, 3, -5),
                       IF (i - 1) % 2 = 0 THEN "CrabTexture" ELSE "CurlyBraceTexture",
                       TRUE)]

\* the point light and the global light spawned by Game::new
GamePointLight ==
    [color |-> <<1, 1, 1>>, power |-> 1, radius |-> 1, translation |-> <<0, 0, 0>>]
GameGlobalLight ==
    [color |-> <<1, 1, 1>>, power |-> 100, direction |-> <<1, 1, 1>>]

-----------------------------------------------------------------------------
(* What a step records about the call it made. *)

Call(op, size, frame, cameras, acquire, updates, unsim) ==
    [ op |-> op,             \* "none", "render", "handle_event:<event>"
      size |-> size,         \* the size carried by a Resized event
      frame |-> frame,       \* answer of frame_criteria: "Yes", "No", "NotRun"
      cameras |-> cameras,   \* main cameras found by the render system (-1: not run)
      acquire |-> acquire,   \* outcome of get_current_texture ("NotCalled")
      updates |-> updates,   \* runs of the update systems (-1: schedule not run)
      unsimulated |-> unsim ]\* unsimulated_time when the update schedule started

NoSize == [width |-> 0, height |-> 0]
NoCall == Call("none", NoSize, "NotRun", -1, "NotCalled", -1, 0)

\* why a run of the render system ended without presenting a frame and
\* without panicking, if it did
DroppedFrame(cameras, acquire) ==
    IF cameras = 0 THEN {"NoCamera"}
    ELSE IF cameras > 1 THEN {"ManyCameras"}
    ELSE IF acquire = "Outdated" THEN {"Outdated"}
    ELSE {}

\* what a step records about a call into one of the libraries
LibCall(op, arg, result) == [op |-> op, arg |-> arg, result |-> result]
NoLibCall == LibCall("none", [none |-> TRUE], [none |-> TRUE])

NoFile    == [result |-> "none", models |-> <<>>]
NotLoaded == [done |-> FALSE, panicked |-> FALSE, ops |-> <<>>, mesh |-> NoMesh]

-----------------------------------------------------------------------------
(* Loading a texture: Texture::from_file.                                  *)

KtxFormats == {"R8G8B8A8_SRGB", "R8G8B8A8_UNORM", "None"}
SupercompressionSchemes == {"None", "Zstandard"}

\* the header a ktx2::Reader hands out
KtxHeader(format, pixel_width, pixel_height, pixel_depth, level_count, scheme) ==
    [ format |-> format, pixel_width |-> pixel_width, pixel_height |-> pixel_height,
      pixel_depth |-> pixel_depth, level_count |-> level_count,
      supercompression_scheme |-> scheme ]

\* a texture file: how far File::open, read_to_end and Reader::new get with
\* it ("OpenErr", "ReadErr", "ParseErr", "Ok") and the header it holds
KtxFile(result, header) == [result |-> result, header |-> header]

NoTextureFile == KtxFile("none", KtxHeader("None", 0, 0, 0, 0, "None"))
NoTextureLoaded == [done |-> FALSE, panicked |-> FALSE, ops |-> <<>>]

\* the four assert_eq! on the header: the load goes on only if all hold
header_asserts_without_level_count(header) ==
    /\ header.format = "R8G8B8A8_SRGB"
    /\ header.pixel_depth = 0
    /\ header.supercompression_scheme = "None"

header_asserts(header) ==
    /\ header.format = "R8G8B8A8_SRGB"
    /\ header.pixel_depth = 0
    /\ header.level_count = 1
    /\ header.supercompression_scheme = "None"

\* Texture::from_file(device, queue, path), on what the file holds: the
\* operations issued on the device and the queue, and whether the load
\* panicked
Texture_from_file(file) ==
    IF file.result # "Ok" THEN [panicked |-> TRUE, ops |-> <<>>]
    ELSE IF ~header_asserts(file.header) THEN [panicked |-> TRUE, ops |-> <<>>]
    ELSE
        LET width  == file.header.pixel_width
            height == file.header.pixel_height
            texture_size == <<width, height, 1>>
        IN  [ panicked |-> FALSE,
              ops |-> << Op("create_texture",
                            [size |-> texture_size, mip_level_count |-> 1,
                             format |-> "Rgba8Unorm"]),
                         Op("write_texture",
                            [mip_level |-> 0, level |-> 1, bytes_per_row |-> 4 * width,
                             rows_per_image |-> 4 * height, size |-> texture_size]),
                         Op("create_view", [none |-> TRUE]),
                         Op("create_sampler", [none |-> TRUE]),
                         Op("create_bind_group_layout", [none |-> TRUE]),
                         Op("create_bind_group", [none |-> TRUE]) >> ]

-----------------------------------------------------------------------------
(* Waiting for a future: BlockOn::block_on.                                *)

\* The thread of RenderState::init and the future it waits for:
\*   stage   what init is acquiring: "none", "adapter", "device", "running"
\*   pc      where the thread is in block_on: "idle", "poll" (about to poll),
\*           "park" (in thread::park), "returned"
\*   token   the park token of the thread
\*   ready   the future has its value; value: that value
\*   waker   the future holds the waker a Pending poll gave it
\*   owed    the future became ready and has not called the waker yet
\*   woken   the waker was called since the last poll
\*   last    what the last poll returned; result: what block_on returned
\*   polls, wakes   polls of this future, and its wakes before it was ready
\*   acquired       what init has unwrapped so far
NotBlocking ==
    [ pc |-> "idle", stage |-> "none", token |-> FALSE, ready |-> FALSE,
      waker |-> FALSE, owed |-> FALSE, woken |-> FALSE, polls |-> 0, wakes |-> 0,
      value |-> "none", result |-> "none", last |-> "none", acquired |-> <<>> ]

\* (mutant) the wake does not unpark the thread
ThreadWaker_wake_lost(ex) == [ex EXCEPT !.woken = TRUE]

\* ThreadWaker::wake: self.0.unpark(), which makes the token available
ThreadWaker_wake(ex) == [ex EXCEPT !.woken = TRUE, !.token = TRUE]

\* fut.as_mut().poll(&mut ctx) and the match on it: Ready returns the
\* value, Pending leaves the waker with the future and goes to park
block_on_poll(ex) ==
    IF ex.ready
    THEN [ex EXCEPT !.pc = "returned", !.result = ex.value, !.last = "Ready",
                    !.polls = @ + 1, !.woken = FALSE]
    ELSE [ex EXCEPT !.pc = "park", !.waker = TRUE, !.last = "Pending",
                    !.polls = @ + 1, !.woken = FALSE]

\* thread::park() returning: the token, if there is one, is consumed and the
\* loop polls again
thread_park(ex) == [ex EXCEPT !.pc = "poll", !.token = FALSE]

\* request.block_on(): a new future is pinned and the loop is entered; the
\* token of the thread is what it was
block_on(ex, stage, ready, value) ==
    [ex EXCEPT !.pc = "poll", !.stage = stage, !.ready = ready,
               !.value = IF ready THEN value ELSE "none", !.waker = FALSE,
               !.woken = FALSE, !.polls = 0, !.wakes = 0, !.result = "none",
               !.last = "none"]

\* no texture is being loaded and no thread is inside block_on
IoIdle ==
    /\ texture_file = NoTextureFile
    /\ texture_load = NoTextureLoaded
    /\ executor = NotBlocking

\* no mesh is being loaded and no shader or shader library is being built
LibrariesIdle ==
    /\ IoIdle
    /\ obj_file = NoFile
    /\ mesh_load = NotLoaded
    /\ shader_builder = NoBuilder
    /\ builder_log = <<>>
    /\ shader = NoShader
    /\ library_builder = <<>>
    /\ shader_ids = <<>>
    /\ shader_library = NotBuilt
    /\ lib_call = NoLibCall

-----------------------------------------------------------------------------
(* The game as it runs: Spec. *)

\* widths and heights a window reports: 0 when minimised
WindowDims == {0, 480, 640}
Sizes      == [width : WindowDims, height : WindowDims]
WindowIds == {"window"}

\* The state after Game::new(window): the RenderState, the TimeResource and
\* the world of game.rs.  The window opens with a non-empty inner size.
Init ==
    /\ \E size \in Sizes :
         /\ size.width > 0 /\ size.height > 0
         /\ state = RenderState_init(size)
    /\ \E update_dt \in 1..MaxDt, frame_dt \in 1..MaxDt :
         time = TimeResource_new(update_dt, frame_dt, 0)
    /\ now = 0
    /\ main_cameras = <<GameCamera>>
    /\ objects = GameObjects
    /\ global_lights = <<GameGlobalLight>>
    /\ point_lights = <<GamePointLight>>
    /\ spot_lights = <<>>
    /\ redraw_pending = FALSE
    /\ control_flow = "Poll"
    /\ panicked = FALSE
    /\ gpu_ops = <<>>
    /\ last_call = NoCall
    /\ last_yes = -1
    /\ dropped_frames = {}
    /\ LibrariesIdle

Running == ~panicked /\ control_flow = "Poll"

\* real time passes between two events
Tick ==
    /\ Running
    /\ now < MaxNow
    /\ now' = now + 1
    /\ gpu_ops' = <<>>
    /\ last_call' = NoCall
    /\ UNCHANGED <<scene_vars, state, time, redraw_pending, control_flow, panicked,
                   last_yes, dropped_frames>>
    /\ UNCHANGED lib_vars

\* Game::handle_event(Event::WindowEvent { WindowEvent::Resized(size), window_id })
HandleResized(size, window_id) ==
    /\ Running
    /\ LET r == IF window_id = "window"
                THEN resize_if_needed(state, size)
                ELSE [state |-> state, ops |-> <<>>]
           u == update_as_needed(time, objects)
       IN  /\ state' = r.state
           /\ gpu_ops' = <<Op("request_redraw", "handle_event")>> \o r.ops
           /\ time' = u.time
           /\ objects' = u.objects
           /\ last_call' = Call("handle_event:Resized", size, "NotRun", -1, "NotCalled",
                                u.updates, time.unsimulated_time)
    /\ redraw_pending' = TRUE
    /\ control_flow' = "Poll"
    /\ UNCHANGED <<main_cameras, global_lights, point_lights, spot_lights, now, panicked,
                   last_yes, dropped_frames>>
    /\ UNCHANGED lib_vars

\* Game::handle_event(Event::WindowEvent { WindowEvent::CloseRequested, window_id })
HandleCloseRequested(window_id) ==
    /\ Running
    /\ gpu_ops' = <<Op("request_redraw", "handle_event")>>
    /\ redraw_pending' = TRUE
    /\ IF window_id = "window"
       THEN /\ control_flow' = "Exit"
            /\ last_call' = Call("handle_event:CloseRequested", NoSize, "NotRun", -1,
                                 "NotCalled", -1, time.unsimulated_time)
            /\ UNCHANGED <<time, objects>>
       ELSE LET u == update_as_needed(time, objects)
            IN  /\ control_flow' = "Poll"
                /\ time' = u.time
                /\ objects' = u.objects
                /\ last_call' = Call("handle_event:CloseRequested", NoSize, "NotRun", -1,
                                     "NotCalled", u.updates, time.unsimulated_time)
    /\ UNCHANGED <<main_cameras, global_lights, point_lights, spot_lights, state, now,
                   panicked, last_yes, dropped_frames>>
    /\ UNCHANGED lib_vars

\* Game::handle_event(Event::RedrawRequested(_)): Game::render runs the frame
\* schedule (frame_criteria, then the render system), then update_as_needed.
\* `gap` clock ticks pass between the two clock reads of frame_criteria.
HandleRedrawRequested(acquire, gap) ==
    /\ Running
    /\ redraw_pending
    /\ now + gap <= MaxNow
    /\ LET fc == frame_criteria(time, now, now + gap)
           n  == Len(main_cameras)
       IN  IF fc.run = "Yes" THEN
               \E r \in {render(state, main_cameras, objects, global_lights,
                               point_lights, spot_lights, acquire)} :
               \E u \in {update_as_needed(fc.time, objects)} :
               LET a == IF n = 1 THEN acquire ELSE "NotCalled"
               IN  /\ now' = now + gap
                   /\ last_yes' = now
                   /\ state' = r.state
                   /\ panicked' = r.panicked
                   /\ dropped_frames' = dropped_frames \cup DroppedFrame(n, acquire)
                   /\ IF r.panicked
                      THEN /\ gpu_ops' = <<Op("request_redraw", "handle_event")>> \o r.ops
                           /\ time' = fc.time
                           /\ last_call' = Call("handle_event:RedrawRequested", NoSize,
                                                "Yes", n, a, -1, fc.time.unsimulated_time)
                           /\ UNCHANGED objects
                      ELSE /\ gpu_ops' = <<Op("request_redraw", "handle_event")>> \o r.ops
                           /\ time' = u.time
                           /\ objects' = u.objects
                           /\ last_call' = Call("handle_event:RedrawRequested", NoSize,
                                                "Yes", n, a, u.updates,
                                                fc.time.unsimulated_time)
           ELSE
               LET u == update_as_needed(fc.time, objects)
               IN  /\ gap = 0
                   /\ acquire = "Ok"
                   /\ gpu_ops' = <<Op("request_redraw", "handle_event")>>
                   /\ time' = u.time
                   /\ objects' = u.objects
                   /\ last_call' = Call("handle_event:RedrawRequested", NoSize, "No",
                                        -1, "NotCalled", u.updates,
                                        fc.time.unsimulated_time)
                   /\ UNCHANGED <<now, last_yes, state, panicked, dropped_frames>>
    /\ redraw_pending' = TRUE
    /\ control_flow' = "Poll"
    /\ UNCHANGED <<main_cameras, global_lights, point_lights, spot_lights>>
    /\ UNCHANGED lib_vars

\* Game::handle_event(any other event)
HandleOther ==
    /\ Running
    /\ LET u == update_as_needed(time, objects)
       IN  /\ time' = u.time
           /\ objects' = u.objects
           /\ last_call' = Call("handle_event:Other", NoSize, "NotRun", -1, "NotCalled",
                                u.updates, time.unsimulated_time)
    /\ gpu_ops' = <<Op("request_redraw", "handle_event")>>
    /\ redraw_pending' = TRUE
    /\ control_flow' = "Poll"
    /\ UNCHANGED <<main_cameras, global_lights, point_lights, spot_lights, state, now,
                   panicked, last_yes, dropped_frames>>
    /\ UNCHANGED lib_vars

Next ==
    \/ Tick
    \/ \E size \in Sizes, w \in WindowIds : HandleResized(size, w)
    \/ \E w \in WindowIds : HandleCloseRequested(w)
    \/ \E acquire \in SurfaceResults, gap \in 0..MaxGap : HandleRedrawRequested(acquire, gap)
    \/ HandleOther

Spec == Init /\ [][Next]_vars

-----------------------------------------------------------------------------
(* The render system against every scene the entity store can hold:       *)
(* SpecScene.  Entities are spawned and despawned between two ticks; a     *)
(* tick runs the render system on what the five queries yield.             *)

\* World::new() and RenderState::init(window), with no entity spawned yet
InitScene ==
    /\ state = RenderState_init([width |-> 640, height |-> 480])
    /\ time = TimeResource_new(1, 1, 0)
    /\ now = 0
    /\ main_cameras = <<>>
    /\ objects = <<>>
    /\ global_lights = <<>>
    /\ point_lights = <<>>
    /\ spot_lights = <<>>
    /\ redraw_pending = FALSE
    /\ control_flow = "Poll"
    /\ panicked = FALSE
    /\ gpu_ops = <<>>
    /\ last_call = NoCall
    /\ last_yes = -1
    /\ dropped_frames = {}
    /\ LibrariesIdle

\* what every change of the scene leaves alone
SceneStep ==
    /\ ~panicked
    /\ gpu_ops' = <<>>
    /\ last_call' = NoCall
    /\ UNCHANGED <<state, game_vars, panicked, dropped_frames>>
    /\ UNCHANGED lib_vars

\* world.spawn().insert(Transform).insert(Camera).insert(MainCamera)
SpawnCamera ==
    /\ SceneStep
    /\ Len(main_cameras) < MaxCameras
    /\ main_cameras' = Append(main_cameras, CameraEntity(Len(main_cameras) + 1))
    /\ UNCHANGED <<objects, global_lights, point_lights, spot_lights>>

\* the newest main camera is despawned
DespawnCamera ==
    /\ SceneStep
    /\ main_cameras # <<>>
    /\ main_cameras' = SubSeq(main_cameras, 1, Len(main_cameras) - 1)
    /\ UNCHANGED <<objects, global_lights, point_lights, spot_lights>>

\* world.spawn().insert(Transform).insert(RenderGeometry), and
\* .insert(Texture) if `textured`: the objects of Game::new, in its order
SpawnObject(textured, max) ==
    /\ SceneStep
    /\ Len(objects) < max
    /\ objects' = Append(objects,
                         IF textured THEN GameObjects[Len(objects) + 1]
                         ELSE [GameObjects[Len(objects) + 1] EXCEPT !.texture = NoTexture])
    /\ UNCHANGED <<main_cameras, global_lights, point_lights, spot_lights>>

\* world.spawn().insert(Transform).insert(PointLight)
SpawnPointLight ==
    /\ SceneStep
    /\ Len(point_lights) < MaxPointLights
    /\ point_lights' = Append(point_lights, PointLightEntity(Len(point_lights) + 1))
    /\ UNCHANGED <<main_cameras, objects, global_lights, spot_lights>>

\* the newest point light is despawned
DespawnPointLight ==
    /\ SceneStep
    /\ point_lights # <<>>
    /\ point_lights' = SubSeq(point_lights, 1, Len(point_lights) - 1)
    /\ UNCHANGED <<main_cameras, objects, global_lights, spot_lights>>

\* world.spawn().insert(GlobalLight)
SpawnGlobalLight ==
    /\ SceneStep
    /\ Len(global_lights) < MaxOtherLights
    /\ global_lights' = Append(global_lights, GlobalLightEntity(Len(global_lights) + 1))
    /\ UNCHANGED <<main_cameras, objects, point_lights, spot_lights>>

\* world.spawn().insert(Transform).insert(SpotLight)
SpawnSpotLight ==
    /\ SceneStep
    /\ Len(spot_lights) < MaxOtherLights
    /\ spot_lights' = Append(spot_lights, SpotLightEntity(Len(spot_lights) + 1))
    /\ UNCHANGED <<main_cameras, objects, global_lights, point_lights>>

\* one tick: the render system runs on the current scene
RenderSystem(acquire) ==
    /\ ~panicked
    /\ \E r \in {render(state, main_cameras, objects, global_lights, point_lights,
                        spot_lights, acquire)} :
         /\ state' = r.state
         /\ gpu_ops' = r.ops
         /\ panicked' = r.panicked
         /\ dropped_frames' = dropped_frames \cup DroppedFrame(Len(main_cameras), acquire)
    /\ last_call' = Call("render", NoSize, "NotRun", Len(main_cameras),
                         IF Len(main_cameras) = 1 THEN acquire ELSE "NotCalled", -1, 0)
    /\ UNCHANGED <<scene_vars, game_vars>>
    /\ UNCHANGED lib_vars

NextScene ==
    \/ SpawnCamera
    \/ DespawnCamera
    \/ \E textured \in BOOLEAN : SpawnObject(textured, MaxObjects)
    \/ SpawnPointLight
    \/ DespawnPointLight
    \/ SpawnGlobalLight
    \/ SpawnSpotLight
    \/ \E acquire \in SurfaceResults : RenderSystem(acquire)

SpecScene == InitScene /\ [][NextScene]_vars

-----------------------------------------------------------------------------
(* The draw loop against scenes of several objects, textured or not:      *)
(* SpecDraw.  The scene has the camera and the point light of the game.    *)

InitDraw ==
    /\ state = RenderState_init([width |-> 640, height |-> 480])
    /\ time = TimeResource_new(1, 1, 0)
    /\ now = 0
    /\ main_cameras = <<GameCamera>>
    /\ objects = <<>>
    /\ global_lights = <<GameGlobalLight>>
    /\ point_lights = <<GamePointLight>>
    /\ spot_lights = <<>>
    /\ redraw_pending = FALSE
    /\ control_flow = "Poll"
    /\ panicked = FALSE
    /\ gpu_ops = <<>>
    /\ last_call = NoCall
    /\ last_yes = -1
    /\ dropped_frames = {}
    /\ LibrariesIdle

NextDraw ==
    \/ \E textured \in BOOLEAN : SpawnObject(textured, MaxDrawObjects)
    \/ \E acquire \in SurfaceResults : RenderSystem(acquire)

SpecDraw == InitDraw /\ [][NextDraw]_vars

-----------------------------------------------------------------------------
(* Reading the log of operations. *)

OpNames(ops) == [i \in 1..Len(ops) |-> ops[i].op]

HasOp(ops, name) == \E i \in 1..Len(ops) : ops[i].op = name

CountOp(ops, name) == Cardinality({i \in 1..Len(ops) : ops[i].op = name})

\* the data of the last write_buffer into `buffer`, or <<>>
Written(ops, buffer) ==
    LET w == {i \in 1..Len(ops) : ops[i].op = "write_buffer" /\ ops[i].arg[1] = buffer}
    IN  IF w = {} THEN <<>>
        ELSE ops[CHOOSE i \in w : \A j \in w : j <= i].arg[3]

\* no GPU work for a frame was recorded, submitted or presented
NoFrameWork(ops) ==
    /\ ~HasOp(ops, "begin_render_pass")
    /\ ~HasOp(ops, "draw_indexed")
    /\ ~HasOp(ops, "submit")
    /\ ~HasOp(ops, "present")

\* a whole frame: the two buffer writes, the acquisition, one pass holding one
\* draw per object, one submit, one present
PresentedFrame(ops, objs) ==
    /\ Len(ops) = 10 + 5 * Len(objs)
    /\ SubSeq(OpNames(ops), 1, 4) =
           <<"write_buffer", "write_buffer", "get_current_texture", "begin_render_pass">>
    /\ SubSeq(OpNames(ops), Len(ops) - 2, Len(ops)) =
           <<"end_render_pass", "submit", "present">>
    /\ CountOp(ops, "draw_indexed") = Len(objs)
    /\ CountOp(ops, "submit") = 1
    /\ CountOp(ops, "present") = 1

\* the step just taken ran the render system
RenderCall == last_call.op = "render"

-----------------------------------------------------------------------------
(* Claims. *)

\* C1: with zero or more than one main camera, a run of the render system
\* logs an error and does nothing else: the RenderState (camera buffer, light
\* buffer, surface configuration) is as before, no frame is acquired, nothing
\* is drawn, submitted or presented; and a run with exactly one main camera
\* and a frame to draw on presents a whole frame, also after such a drop.
C1_NoUniqueCameraSkipsFrame ==
    [][ /\ (RenderCall' /\ last_call'.cameras # 1) =>
             /\ OpNames(gpu_ops') = <<"log_error">>
             /\ state' = state
             /\ ~panicked'
        /\ (RenderCall' /\ last_call'.cameras = 1 /\ last_call'.acquire = "Ok") =>
             PresentedFrame(gpu_ops', objects') ]_vars

\* a frame presented after frames were dropped for want of a unique camera,
\* with none and with two cameras
C1_Witness ==
    /\ RenderCall /\ last_call.cameras = 1 /\ last_call.acquire = "Ok"
    /\ {"NoCamera", "ManyCameras"} \subseteq dropped_frames
    /\ HasOp(gpu_ops, "draw_indexed")

\* C4: with more than 8 point lights in the scene, the point-light array
\* written to the light buffer is the first 8 lights in encounter order, no
\* word of a later light is in the written region, and packing raises no
\* error.
C4_FirstEightPointLights ==
    (RenderCall /\ last_call.cameras = 1 /\ Len(point_lights) > 8) =>
        LET written == Written(gpu_ops, "light_buffer")
        IN  /\ written = Flatten([i \in 1..8 |->
                                    PointLightWords(PointLightData_from(point_lights[i]))])
            /\ SubSeq(state.light_buffer, 1, Len(written)) = written
            /\ \A k \in 9..Len(point_lights) : \A i \in 1..Len(written) :
                  /\ written[i] # PointLightData_from(point_lights[k]).position
                  /\ written[i] # PointLightData_from(point_lights[k]).color
            /\ panicked => last_call.acquire \notin {"Ok", "Outdated"}

C4_Witness ==
    /\ RenderCall /\ last_call.cameras = 1 /\ last_call.acquire = "Ok"
    /\ Len(point_lights) > 8
    /\ Len(Written(gpu_ops, "light_buffer")) = 16

\* C5: when the surface reports "outdated", RenderState::render returns
\* without error: no render pass, no draw, no submit, no present; and a later
\* run that gets a frame presents it.
C5_OutdatedSkipsFrame ==
    /\ (RenderCall /\ last_call.acquire = "Outdated") =>
          /\ ~panicked
          /\ NoFrameWork(gpu_ops)
          /\ gpu_ops[Len(gpu_ops)].op = "get_current_texture"
    /\ (RenderCall /\ last_call.acquire = "Ok" /\ "Outdated" \in dropped_frames) =>
          PresentedFrame(gpu_ops, objects)

C5_Witness ==
    /\ RenderCall /\ last_call.acquire = "Ok" /\ "Outdated" \in dropped_frames
    /\ objects # <<>>
    /\ HasOp(gpu_ops, "present")

\* C6: when acquiring the frame fails with any error other than "outdated",
\* the render call panics, and nothing is drawn, submitted or presented.
C6_OtherAcquireErrorIsFatal ==
    (RenderCall /\ last_call.acquire \in {"Timeout", "Lost", "OutOfMemory"}) =>
        /\ panicked
        /\ NoFrameWork(gpu_ops)

C6_Witness ==
    /\ RenderCall /\ last_call.acquire = "Lost"
    /\ objects # <<>>
    /\ panicked

\* C7: whenever a frame is dropped (no unique main camera, or the surface
\* reports outdated), the camera buffer, the light buffer and the surface
\* configuration are after the render call what they were before it.
C7_DroppedFrameLeavesGpuState ==
    [][ (RenderCall' /\ DroppedFrame(last_call'.cameras, last_call'.acquire) # {}) =>
            /\ state'.camera_buffer = state.camera_buffer
            /\ state'.light_buffer = state.light_buffer
            /\ state'.surface_config = state.surface_config ]_vars

\* the step just taken handled a Resized event carrying a size of this kind
ResizedCall(positive) ==
    /\ last_call.op = "handle_event:Resized"
    /\ (last_call.size.width > 0 /\ last_call.size.height > 0) = positive

\* the redraw requests among `ops` that `caller` issued
RedrawRequests(ops, caller) ==
    Cardinality({i \in 1..Len(ops) : ops[i] = Op("request_redraw", caller)})

\* C2: resize_if_needed with width 0 or height 0 leaves the whole RenderState,
\* the stored surface configuration included, as it was, reconfigures
\* nothing, requests no redraw and raises no error.
C2_ZeroAreaResizeIgnored ==
    [][ ResizedCall(FALSE)' =>
            /\ state' = state
            /\ ~HasOp(gpu_ops', "configure")
            /\ RedrawRequests(gpu_ops', "resize_if_needed") = 0
            /\ ~panicked' ]_vars

C2_Witness ==
    /\ ResizedCall(FALSE)
    /\ last_call.size.width = 0
    /\ last_call.size.height = 640
    /\ state.surface_config.height = 480

\* C3 as claimed: once a resize event carrying (W, H), W > 0 and H > 0, has
\* been handled, the stored configuration has width W and height H, the
\* surface has been reconfigured once, and exactly one redraw request has
\* been issued for the event.
C3_OneRedrawRequestPerResizeEvent ==
    ResizedCall(TRUE) =>
        /\ state.surface_config.width = last_call.size.width
        /\ state.surface_config.height = last_call.size.height
        /\ CountOp(gpu_ops, "configure") = 1
        /\ CountOp(gpu_ops, "request_redraw") = 1

\* C3, amended: ... the surface has been reconfigured once, with that
\* configuration, and resize_if_needed has issued exactly one redraw request;
\* handle_event issues one more of its own, two for the event.
C3_ResizeStoresSizeAndRequestsRedraw ==
    ResizedCall(TRUE) =>
        /\ state.surface_config.width = last_call.size.width
        /\ state.surface_config.height = last_call.size.height
        /\ CountOp(gpu_ops, "configure") = 1
        /\ HasOp(gpu_ops, "configure") =>
              \A i \in 1..Len(gpu_ops) :
                  gpu_ops[i].op = "configure" => gpu_ops[i].arg = state.surface_config
        /\ RedrawRequests(gpu_ops, "resize_if_needed") = 1
        /\ RedrawRequests(gpu_ops, "handle_event") = 1
        /\ CountOp(gpu_ops, "request_redraw") = 2

C3_Witness ==
    /\ ResizedCall(TRUE)
    /\ last_call.size.width = 480
    /\ last_call.size.height = 640
    /\ state.depth_stencil_texture.width = 640

\* the rotate system run n times
RECURSIVE RotateTimes(_, _)
RotateTimes(objs, n) == IF n = 0 THEN objs ELSE RotateTimes(rotate(objs), n - 1)

\* C8: a run of the update schedule executes the update systems exactly
\* floor(unsimulated_time / update_dt) times, each moving update_dt from
\* unsimulated_time to ingame_time, and leaves unsimulated_time < update_dt.
C8_UpdateCatchUp ==
    [][ last_call'.updates >= 0 =>
            LET n  == last_call'.updates
                dt == time.update_dt
                u  == last_call'.unsimulated
            IN  /\ n = u \div dt
                /\ time'.unsimulated_time = u - n * dt
                /\ time'.unsimulated_time < dt
                /\ time'.ingame_time = time.ingame_time + n * dt
                /\ objects' = RotateTimes(objects, n) ]_vars

\* two updates in one run, caught up after a frame that came late
C8_Witness ==
    /\ last_call.updates >= 2
    /\ last_call.unsimulated >= 4
    /\ time.update_dt = 2

\* C9: frame_criteria lets the render system run only when at least frame_dt
\* has passed since it last let it run, or since the TimeResource was
\* created (the clock read 0 then): two runs of the draw phase are at least
\* frame_dt apart.
C9_FrameLimiter ==
    [][ (last_call'.frame = "Yes" \/ last_yes' # last_yes) =>
            /\ last_yes' = now
            /\ now - (IF last_yes = -1 THEN 0 ELSE last_yes) >= time.frame_dt
            /\ last_call'.frame = "Yes" ]_vars

\* a second frame drawn, the first having been dropped for an outdated
\* surface, under a frame_dt of two ticks
C9_Witness ==
    /\ last_call.frame = "Yes" /\ last_call.acquire = "Ok"
    /\ "Outdated" \in dropped_frames
    /\ time.frame_dt = 2

\* the words of `lights` lie somewhere in the light buffer, in order
InLightBuffer(buf, words) ==
    \E off \in 0..(Len(buf) - Len(words)) : SubSeq(buf, off + 1, off + Len(words)) = words

\* C10: on a tick with exactly one main camera, the first up to 8 global
\* lights and the first up to 8 spot lights of the scene are written into the
\* light buffer, as the point lights are.
C10_AllLightKindsWritten ==
    (RenderCall /\ last_call.cameras = 1) =>
        /\ InLightBuffer(state.light_buffer,
               Flatten(MapSeq(GlobalLightWords,
                   Take(MapSeq(GlobalLightData_from, global_lights), MAX_GLOBAL_LIGHTS))))
        /\ InLightBuffer(state.light_buffer,
               Flatten(MapSeq(PointLightWords,
                   Take(MapSeq(PointLightData_from, point_lights), MAX_POINT_LIGHTS))))
        /\ InLightBuffer(state.light_buffer,
               Flatten(MapSeq(SpotLightWords,
                   Take(MapSeq(SpotLightData_from, spot_lights), MAX_SPOT_LIGHTS))))


-----------------------------------------------------------------------------
(* The light buffer and its regions. *)

\* the first `size` words a shader sees through a binding of the light buffer
BoundRegion(st, entry, size) ==
    SubSeq(st.light_buffer, entry.offset + 1, entry.offset + size)

\* C11: the light buffer is the concatenation of three regions that do not
\* overlap (global lights at offset 0, point lights right after the global
\* array, spot lights right after the point array) whose sizes sum to the
\* size of the buffer, and after a run of the render system with one main
\* camera the point-light array it wrote is what the region bound for point
\* lights holds: it was written at the offset of that region.
C11_LightArraysInOwnRegions ==
    /\ state.light_bind_group.global.offset = 0
    /\ state.light_bind_group.point.offset = global_light_size
    /\ state.light_bind_group.spot.offset = global_light_size + point_light_size
    /\ Len(state.light_buffer) = global_light_size + point_light_size + spot_light_size
    /\ (RenderCall /\ last_call.cameras = 1) =>
          \A i \in 1..Len(gpu_ops) :
              (gpu_ops[i].op = "write_buffer" /\ gpu_ops[i].arg[1] = "light_buffer") =>
                  /\ gpu_ops[i].arg[2] = state.light_bind_group.point.offset
                  /\ BoundRegion(state, state.light_bind_group.point, point_light_size)
                        = gpu_ops[i].arg[3]

-----------------------------------------------------------------------------
(* Loading a mesh: SpecGeometry.  MeshData::from_file run on every mesh    *)
(* file of up to MaxTriangles triangles.                                   *)

\* the renderer and the game are not running
RenderIdle ==
    /\ state = RenderState_init([width |-> 640, height |-> 480])
    /\ time = TimeResource_new(1, 1, 0)
    /\ now = 0
    /\ main_cameras = <<>>
    /\ objects = <<>>
    /\ global_lights = <<>>
    /\ point_lights = <<>>
    /\ spot_lights = <<>>
    /\ redraw_pending = FALSE
    /\ control_flow = "Poll"
    /\ gpu_ops = <<>>
    /\ last_call = NoCall
    /\ last_yes = -1
    /\ dropped_frames = {}

render_vars == <<scene_vars, state, game_vars, gpu_ops, last_call, dropped_frames>>

\* index values a mesh file may hold: around the end of the u16 range
IndexPool == {0, 1, U16_MAX, U16_MAX + 1}

\* what tobj::load_obj may yield: an error, no model, or a triangulated mesh
ObjFiles ==
    {[result |-> "Err", models |-> <<>>], [result |-> "Ok", models |-> <<>>]}
    \cup {ObjFile(idx, 3) : idx \in UNION {[1..(3 * t) -> IndexPool] : t \in 0..MaxTriangles}}

InitGeometry ==
    /\ RenderIdle
    /\ panicked = FALSE
    /\ obj_file \in ObjFiles
    /\ mesh_load = NotLoaded
    /\ IoIdle
    /\ shader_builder = NoBuilder
    /\ builder_log = <<>>
    /\ shader = NoShader
    /\ library_builder = <<>>
    /\ shader_ids = <<>>
    /\ shader_library = NotBuilt
    /\ lib_call = NoLibCall

\* MeshData::from_file(device, path)
LoadMesh ==
    /\ ~mesh_load.done
    /\ \E r \in {MeshData_from_file(obj_file)} :
         /\ mesh_load' = [done |-> TRUE, panicked |-> r.panicked, ops |-> r.ops,
                          mesh |-> r.mesh]
         /\ panicked' = r.panicked
    /\ lib_call' = LibCall("MeshData::from_file", [none |-> TRUE], [none |-> TRUE])
    /\ UNCHANGED <<render_vars, obj_file, shader_builder, builder_log, shader,
                   library_builder, shader_ids, shader_library, io_vars>>

NextGeometry == LoadMesh

SpecGeometry == InitGeometry /\ [][NextGeometry]_vars

\* the indices of the mesh file, when it has a mesh
FileIndices == IF obj_file.models = <<>> THEN <<>> ELSE obj_file.models[1].indices

\* how often `v` occurs in `seq`
Occurrences(seq, v) == Cardinality({i \in 1..Len(seq) : seq[i] = v})

\* the data of the buffers created with this usage
BuffersCreated(ops, usage) ==
    {ops[i].arg[2] : i \in {j \in 1..Len(ops) : ops[j].arg[1] = usage}}

\* C14: loading a mesh that holds an index value >= 65536 panics before any
\* GPU buffer is created; a mesh whose indices are all <= 65535 loads, and
\* its index buffer holds as many indices as the file, every value of the
\* file as often as the file holds it: none truncated, none wrapped.
C14_WideIndexIsFatal ==
    (mesh_load.done /\ obj_file.result = "Ok" /\ obj_file.models # <<>>) =>
        IF \E i \in 1..Len(FileIndices) : FileIndices[i] >= 65536
        THEN /\ mesh_load.panicked
             /\ panicked
             /\ mesh_load.ops = <<>>
        ELSE /\ ~mesh_load.panicked
             /\ mesh_load.mesh.index_len = Len(FileIndices)
             /\ BuffersCreated(mesh_load.ops, "INDEX") = {mesh_load.mesh.indices}
             /\ \A v \in IndexPool :
                   Occurrences(mesh_load.mesh.indices, v) = Occurrences(FileIndices, v)

\* a load aborted on a two-triangle mesh whose last index is 65536, the
\* others fitting 16 bits
C14_Witness ==
    /\ mesh_load.done /\ mesh_load.panicked
    /\ Len(FileIndices) = 6
    /\ FileIndices[6] = 65536
    /\ \A i \in 1..5 : FileIndices[i] <= 65535

\* C15: the index buffer uploaded for a mesh holds, for every consecutive
\* triple [a, b, c] of the file, the triple [c, b, a] at the same place; it
\* has as many indices as the file, is the only index buffer created, and
\* reversing it once more gives the file's index list back.
C15_WindingReversedOnce ==
    (mesh_load.done /\ ~mesh_load.panicked) =>
        LET up == mesh_load.mesh.indices
        IN  /\ Len(up) = Len(FileIndices)
            /\ \A t \in 0..((Len(FileIndices) \div 3) - 1) :
                  /\ up[3 * t + 1] = FileIndices[3 * t + 3]
                  /\ up[3 * t + 2] = FileIndices[3 * t + 2]
                  /\ up[3 * t + 3] = FileIndices[3 * t + 1]
            /\ BuffersCreated(mesh_load.ops, "INDEX") = {up}
            /\ Len(mesh_load.ops) = 2
            /\ reverse_indices(up) = FileIndices

\* a mesh of two different triangles, the first of three different indices,
\* loaded
C15_Witness ==
    /\ mesh_load.done /\ ~mesh_load.panicked
    /\ Len(FileIndices) = 6
    /\ SubSeq(FileIndices, 1, 3) = <<0, 1, 65535>>
    /\ SubSeq(FileIndices, 4, 6) = <<1, 1, 0>>
    /\ mesh_load.mesh.indices = <<65535, 1, 0, 0, 1, 1>>

-----------------------------------------------------------------------------
(* The draw loop. *)

\* the positions of the draw calls in `ops`, in order
DrawCalls(ops) ==
    LET d == {i \in 1..Len(ops) : ops[i].op = "draw_indexed"}
        RECURSIVE Sorted(_)
        Sorted(set) == IF set = {} THEN <<>>
                       ELSE LET m == CHOOSE i \in set : \A j \in set : i <= j
                            IN  <<m>> \o Sorted(set \ {m})
    IN  Sorted(d)

\* the argument of the last call `name` recorded before position i whose
\* argument satisfies `slot`
InEffect(ops, i, name, slot(_)) ==
    LET c == {j \in 1..(i - 1) : ops[j].op = name /\ slot(ops[j].arg)}
    IN  IF c = {} THEN "nothing"
        ELSE ops[CHOOSE j \in c : \A k \in c : k <= j].arg

AnySlot(a) == TRUE
TextureSlot(a) == a[1] = 1

\* the bind group of the texture library for an object's optional texture
BindGroupOf(o) == state.texture_library[o.texture].bind_group

\* C12: in every presented frame there are as many indexed draws as the
\* scene has renderable objects, and the k-th draw covers indices
\* 0..index_len of the k-th object's geometry with instances 0..1, under the
\* model matrix, the slot-1 texture bind group and the vertex and index
\* buffers of that same object.
C12_OneDrawPerObject ==
    (RenderCall /\ HasOp(gpu_ops, "present")) =>
        LET draws == DrawCalls(gpu_ops)
        IN  /\ Len(draws) = Len(objects)
            /\ \A k \in 1..Len(objects) :
                  LET o    == objects[k]
                      mesh == state.geometry_library[o.geom_type]
                      i    == draws[k]
                  IN  /\ gpu_ops[i].arg = [indices |-> <<0, mesh.index_len>>,
                                           base_vertex |-> 0, instances |-> <<0, 1>>]
                      /\ mesh.index_len = Len(mesh.indices)
                      /\ InEffect(gpu_ops, i, "set_push_constants", AnySlot)
                            = IsometryToMatrix(o.isometry)
                      /\ InEffect(gpu_ops, i, "set_bind_group", TextureSlot)
                            = <<1, BindGroupOf(o)>>
                      /\ InEffect(gpu_ops, i, "set_vertex_buffer", AnySlot)
                            = <<0, mesh.vertices>>
                      /\ InEffect(gpu_ops, i, "set_index_buffer", AnySlot)
                            = <<mesh.indices, "Uint16">>

\* a frame presented with three objects of two geometries and two textures
C12_Witness ==
    /\ RenderCall /\ HasOp(gpu_ops, "present")
    /\ Len(objects) = 3
    /\ objects[1].geom_type # objects[2].geom_type
    /\ objects[1].texture \in TextureIds
    /\ objects[2].texture \in TextureIds \ {objects[1].texture}
    /\ CountOp(gpu_ops, "draw_indexed") = 3

-----------------------------------------------------------------------------
(* One ShaderBuilder chain, from ShaderBuilder::new to build:              *)
(* SpecShaderBuilder.                                                      *)

VertexPath   == <<"shader", "/", "vertex_shader", ".", "vs">>
FragmentPath == <<"shader", "/", "fragment_shader", ".", "fs">>
MissingPath  == <<"shader", "/", "missing", ".", "vs">>

\* source paths a caller may give: the sources on disk, one that is not
\* there, and file names without a known extension
ShaderPaths ==
    ShaderFiles \cup { MissingPath,
                       <<"shader", "/", "readme">>,
                       <<"shader", "/", "notes", ".", "txt">>,
                       <<"shader", "/", ".", "vs">> }

ShaderNames      == { <<"Joblin">> }
EntryPoints      == { <<"main2">> }
OtherSourcePaths == { FragmentPath, MissingPath }

InitLibraries ==
    /\ RenderIdle
    /\ panicked = FALSE
    /\ LibrariesIdle

\* what a step of a library leaves alone besides the library's own variables
LibraryStep == UNCHANGED <<render_vars, obj_file, mesh_load, io_vars>>

\* let builder = ShaderBuilder::new(&path)
BuilderNew(path) ==
    /\ ~panicked /\ shader_builder = NoBuilder /\ builder_log = <<>>
    /\ \E r \in {ShaderBuilder_new(path)} :
         /\ panicked' = r.panicked
         /\ shader_builder' = IF r.panicked THEN NoBuilder ELSE r.builder
         /\ lib_call' = LibCall("new", [source_path |-> path], [panicked |-> r.panicked])
    /\ builder_log' = <<[op |-> "new", arg |-> [source_path |-> path]]>>
    /\ LibraryStep
    /\ UNCHANGED <<shader, library_builder, shader_ids, shader_library>>

\* the argument of a setter call, under the name of the setter
SetterArg(setter, arg) ==
    CASE setter = "name" -> [name |-> arg]
      [] setter = "source_path" -> [source_path |-> arg]
      [] setter = "entry_point" -> [entry_point |-> arg]
      [] setter = "shader_kind" -> [shader_kind |-> arg]

\* builder.<setter>(arg), for one of the four setters
BuilderSet(setter, arg, after) ==
    /\ ~panicked /\ shader_builder # NoBuilder
    /\ Len(builder_log) <= MaxSetterCalls
    /\ shader_builder' = after
    /\ builder_log' = Append(builder_log, [op |-> setter, arg |-> SetterArg(setter, arg)])
    /\ lib_call' = LibCall(setter, SetterArg(setter, arg), [panicked |-> FALSE])
    /\ LibraryStep
    /\ UNCHANGED <<panicked, shader, library_builder, shader_ids, shader_library>>

BuilderName(name) ==
    BuilderSet("name", name, ShaderBuilder_name(shader_builder, name))

BuilderSourcePath(path) ==
    BuilderSet("source_path", path, ShaderBuilder_source_path(shader_builder, path))

BuilderEntryPoint(entry) ==
    BuilderSet("entry_point", entry, ShaderBuilder_entry_point(shader_builder, entry))

BuilderShaderKind(kind) ==
    BuilderSet("shader_kind", kind, ShaderBuilder_shader_kind(shader_builder, kind))

\* builder.build(&device)
BuilderBuild(compiles) ==
    /\ ~panicked /\ shader_builder # NoBuilder
    /\ \E r \in {ShaderBuilder_build(shader_builder, compiles)} :
         /\ panicked' = r.panicked
         /\ shader' = r.shader
         /\ lib_call' = LibCall("build", [builder |-> shader_builder], [panicked |-> r.panicked])
    /\ shader_builder' = NoBuilder
    /\ LibraryStep
    /\ UNCHANGED <<builder_log, library_builder, shader_ids, shader_library>>

NextShaderBuilder ==
    \/ \E path \in ShaderPaths : BuilderNew(path)
    \/ \E name \in ShaderNames : BuilderName(name)
    \/ \E path \in OtherSourcePaths : BuilderSourcePath(path)
    \/ \E entry \in EntryPoints : BuilderEntryPoint(entry)
    \/ \E kind \in ShaderKinds : BuilderShaderKind(kind)
    \/ \E compiles \in BOOLEAN : BuilderBuild(compiles)

SpecShaderBuilder == InitLibraries /\ [][NextShaderBuilder]_vars

\* a shader was built by a chain that called no setter, from this path
BuiltByDefault(path) ==
    /\ shader # NoShader
    /\ builder_log = <<[op |-> "new", arg |-> [source_path |-> path]]>>

\* C17 as claimed: a shader built with no option overridden has the file
\* stem of its source path (the file name without its extension) for name,
\* the kind of the extension, and the entry point "main".
C17_NameIsFileStem ==
    \A path \in ShaderPaths :
        BuiltByDefault(path) =>
            /\ shader.name = Path_file_stem(path)
            /\ shader.shader_kind = to_shader_kind(Path_extension(path))
            /\ shader.entry_point = <<"main">>

\* C17: a shader built with no option overridden has for name the whole
\* last component of its source path, extension included: the source path
\* is a directory part ending in "/" followed by the name, and the name
\* holds no "/"; its kind is the one of the last piece of that name, the
\* extension, and its entry point is "main".
C17_NameIsFileName ==
    \A path \in ShaderPaths :
        BuiltByDefault(path) =>
            /\ \E n \in 1..Len(path) :
                  /\ shader.name = SubSeq(path, n, Len(path))
                  /\ n > 1 => path[n - 1] = "/"
                  /\ \A i \in n..Len(path) : path[i] # "/"
            /\ Len(shader.name) >= 3
            /\ shader.name[Len(shader.name) - 1] = "."
            /\ shader.shader_kind = to_shader_kind(<<shader.name[Len(shader.name)]>>)
            /\ shader.entry_point = <<"main">>

\* a shader built by default from a file name with two dots
C17_Witness ==
    /\ BuiltByDefault(<<"shader", "/", "fur", ".", "shell", ".", "gs">>)
    /\ shader.name = <<"fur", ".", "shell", ".", "gs">>
    /\ shader.shader_kind = "Geometry"

\* C18: ShaderBuilder::new(path).build(device) with no override yields a
\* shader whose source_path is path, whose name is the last component of
\* path with its extension ("shader/vertex_shader.vs" gives
\* "vertex_shader.vs"), whose kind is Vertex for vs, Fragment for fs,
\* Compute for cs and Geometry for gs, and whose entry point is "main";
\* ShaderBuilder::new panics on any other extension, and on none.
C18_BuilderDefaults ==
    /\ \A path \in ShaderPaths :
          BuiltByDefault(path) =>
              /\ shader.source_path = path
              /\ shader.entry_point = <<"main">>
              /\ path = VertexPath =>
                    /\ shader.name = <<"vertex_shader", ".", "vs">>
                    /\ shader.shader_kind = "Vertex"
              /\ path = FragmentPath =>
                    /\ shader.name = <<"fragment_shader", ".", "fs">>
                    /\ shader.shader_kind = "Fragment"
              /\ path = <<"shader", "/", "light", ".", "cs">> =>
                    /\ shader.name = <<"light", ".", "cs">>
                    /\ shader.shader_kind = "Compute"
              /\ path = <<"shader", "/", "fur", ".", "shell", ".", "gs">> =>
                    /\ shader.name = <<"fur", ".", "shell", ".", "gs">>
                    /\ shader.shader_kind = "Geometry"
    /\ lib_call.op = "new" =>
          LET path == lib_call.arg.source_path
          IN  panicked <=> \/ path[Len(path)] \notin {"vs", "fs", "cs", "gs"}
                           \/ path[Len(path) - 1] # "."
                           \/ path[Len(path) - 2] = "/"

\* the shader of the test: built by default from "shader/vertex_shader.vs"
C18_Witness ==
    /\ BuiltByDefault(VertexPath)
    /\ shader.name = <<"vertex_shader", ".", "vs">>
    /\ shader.shader_kind = "Vertex"
    /\ lib_call.op = "build"

Fields == {"name", "source_path", "entry_point", "shader_kind"}

FieldOf(b, field) ==
    CASE field = "name" -> b.name
      [] field = "source_path" -> b.source_path
      [] field = "entry_point" -> b.entry_point
      [] field = "shader_kind" -> b.shader_kind

\* the value a chain of calls leaves in `field`: the argument of the last
\* call of that setter, or else `default`
LastSet(log, field, default) ==
    LET c == {i \in 1..Len(log) : log[i].op = field}
    IN  IF c = {} THEN default
        ELSE FieldOf(log[CHOOSE i \in c : \A j \in c : j <= i].arg, field)

\* C19: a setter call changes its own field of the builder to its argument
\* and leaves the other three fields as they were, whatever calls came
\* before; and the shader built carries for each field the argument of the
\* last call of that field's setter in the chain, or the value
\* ShaderBuilder::new gave it if there was no such call.
C19_SettersOverrideOwnField ==
    [][ /\ (lib_call'.op \in Fields) =>
             \A f \in Fields :
                 FieldOf(shader_builder', f) =
                     IF f = lib_call'.op THEN FieldOf(lib_call'.arg, f)
                     ELSE FieldOf(shader_builder, f)
        /\ (lib_call'.op = "build" /\ ~panicked') =>
             \A f \in Fields :
                 /\ FieldOf(shader', f) = FieldOf(shader_builder, f)
                 /\ FieldOf(shader', f) =
                        LastSet(builder_log, f,
                                FieldOf(ShaderBuilder_new(builder_log[1].arg.source_path)
                                            .builder, f)) ]_vars

\* the shader of the test: new("shader/vertex_shader.vs"), then name
\* "Joblin", shader kind Vertex, entry point "main2", then build
C19_Witness ==
    /\ shader # NoShader
    /\ builder_log = << [op |-> "new", arg |-> [source_path |-> VertexPath]],
                        [op |-> "name", arg |-> [name |-> <<"Joblin">>]],
                        [op |-> "shader_kind", arg |-> [shader_kind |-> "Vertex"]],
                        [op |-> "entry_point", arg |-> [entry_point |-> <<"main2">>]] >>
    /\ shader.name = <<"Joblin">>
    /\ shader.entry_point = <<"main2">>
    /\ shader.source_path = VertexPath

-----------------------------------------------------------------------------
(* A ShaderLibraryBuilder filled, built and looked up, and the libraries   *)
(* of the RenderState looked up: SpecShaderLibrary.                        *)

\* builders a caller may hand to add_builder: chains of one setter call
CallerBuilders ==
    { ShaderBuilder_name(ShaderBuilder_new(VertexPath).builder, <<"Joblin">>),
      ShaderBuilder_source_path(ShaderBuilder_new(VertexPath).builder, FragmentPath),
      ShaderBuilder_entry_point(ShaderBuilder_new(FragmentPath).builder, <<"main2">>) }

\* builder.add(&path)
LibraryAdd(path) ==
    /\ ~panicked /\ ~shader_library.built
    /\ Len(library_builder) < MaxShaders
    /\ \E r \in {ShaderLibraryBuilder_add(library_builder, path)} :
         /\ panicked' = r.panicked
         /\ library_builder' = r.builders
         /\ shader_ids' = IF r.panicked THEN shader_ids
                          ELSE Append(shader_ids, [id |-> r.id, source_path |-> path])
         /\ lib_call' = LibCall("add", [source_path |-> path], [id |-> r.id])
    /\ LibraryStep
    /\ UNCHANGED <<shader_builder, builder_log, shader, shader_library>>

\* builder.add_builder(b)
LibraryAddBuilder(b) ==
    /\ ~panicked /\ ~shader_library.built
    /\ Len(library_builder) < MaxShaders
    /\ \E r \in {ShaderLibraryBuilder_add_builder(library_builder, b)} :
         /\ library_builder' = r.builders
         /\ shader_ids' = Append(shader_ids, [id |-> r.id, source_path |-> b.source_path])
         /\ lib_call' = LibCall("add_builder", [builder |-> b], [id |-> r.id])
    /\ LibraryStep
    /\ UNCHANGED <<panicked, shader_builder, builder_log, shader, shader_library>>

\* let library = builder.build(&device)
LibraryBuild(compiles) ==
    /\ ~panicked /\ ~shader_library.built
    /\ \E r \in {ShaderLibraryBuilder_build(library_builder, compiles)} :
         /\ panicked' = r.panicked
         /\ shader_library' = r.library
         /\ lib_call' = LibCall("build_library", [count |-> Len(library_builder)],
                              [panicked |-> r.panicked])
    /\ LibraryStep
    /\ UNCHANGED <<shader_builder, builder_log, shader, library_builder, shader_ids>>

\* library.get(id)
LibraryGet(id) ==
    /\ ~panicked /\ shader_library.built
    /\ \E r \in {ShaderLibrary_get(shader_library.shaders, id)} :
         /\ panicked' = r.panicked
         /\ lib_call' = LibCall("ShaderLibrary::get", [id |-> id], [entry |-> r.entry])
    /\ LibraryStep
    /\ UNCHANGED <<shader_builder, builder_log, shader, library_builder, shader_ids,
                   shader_library>>

\* self.geometry_library.get(id)
GeometryGet(id) ==
    /\ ~panicked
    /\ \E r \in {GeometryLibrary_get(state.geometry_library, id)} :
         /\ panicked' = r.panicked
         /\ lib_call' = LibCall("GeometryLibrary::get", [geometry |-> id], [entry |-> r.entry])
    /\ LibraryStep
    /\ UNCHANGED <<shader_builder, builder_log, shader, library_builder, shader_ids,
                   shader_library>>

\* self.texture_library.get(id)
TextureGet(id) ==
    /\ ~panicked
    /\ \E r \in {TextureLibrary_get_id(state.texture_library, id)} :
         /\ panicked' = r.panicked
         /\ lib_call' = LibCall("TextureLibrary::get", [texture |-> id], [entry |-> r.entry])
    /\ LibraryStep
    /\ UNCHANGED <<shader_builder, builder_log, shader, library_builder, shader_ids,
                   shader_library>>

NextShaderLibrary ==
    \/ \E path \in ShaderPaths : LibraryAdd(path)
    \/ \E b \in CallerBuilders : LibraryAddBuilder(b)
    \/ \E compiles \in BOOLEAN : LibraryBuild(compiles)
    \/ \E id \in 0..MaxShaders : LibraryGet(id)
    \/ \E id \in GeometryIds : GeometryGet(id)
    \/ \E id \in TextureIds : TextureGet(id)

SpecShaderLibrary == InitLibraries /\ [][NextShaderLibrary]_vars

\* C16: the k-th call of add or add_builder, counting from 0, returned id k;
\* the ids returned are all different; and once the library is built it
\* holds as many shaders as there were calls, and get(id) yields, for the id
\* each call returned, a shader whose source path is the one given to that
\* call.
C16_IdsAreCallOrder ==
    /\ \A k \in 1..Len(shader_ids) : shader_ids[k].id = k - 1
    /\ \A j, k \in 1..Len(shader_ids) : j # k => shader_ids[j].id # shader_ids[k].id
    /\ shader_library.built =>
          /\ Len(shader_library.shaders) = Len(shader_ids)
          /\ \A k \in 1..Len(shader_ids) :
                /\ ~ShaderLibrary_get(shader_library.shaders, shader_ids[k].id).panicked
                /\ ShaderLibrary_get(shader_library.shaders, shader_ids[k].id)
                      .entry.source_path = shader_ids[k].source_path

\* the library of the test: add("shader/vertex_shader.vs"), then
\* add("shader/fragment_shader.fs"), then build
C16_Witness ==
    /\ shader_library.built
    /\ shader_ids = << [id |-> 0, source_path |-> VertexPath],
                       [id |-> 1, source_path |-> FragmentPath] >>
    /\ lib_call.op = "ShaderLibrary::get" /\ lib_call.arg.id = 1
    /\ lib_call.result.entry.source_path = FragmentPath

\* the ids add and add_builder returned
RegisteredShaderIds == {shader_ids[k].id : k \in 1..Len(shader_ids)}

-----------------------------------------------------------------------------
(* Loading a texture: SpecTexture.  Texture::from_file run on every        *)
(* texture file whose header stays within the bounds.                      *)

KtxHeaders ==
    { KtxHeader(f, w, h, d, l, c) :
        f \in KtxFormats, w \in 1..MaxPixelDim, h \in 1..MaxPixelDim,
        d \in 0..MaxPixelDepth, l \in 0..MaxLevelCount, c \in SupercompressionSchemes }

KtxFiles ==
    { KtxFile(r, hd) : r \in {"OpenErr", "ReadErr", "ParseErr", "Ok"}, hd \in KtxHeaders }

InitTexture ==
    /\ RenderIdle
    /\ panicked = FALSE
    /\ obj_file = NoFile
    /\ mesh_load = NotLoaded
    /\ shader_builder = NoBuilder
    /\ builder_log = <<>>
    /\ shader = NoShader
    /\ library_builder = <<>>
    /\ shader_ids = <<>>
    /\ shader_library = NotBuilt
    /\ lib_call = NoLibCall
    /\ texture_file \in KtxFiles
    /\ texture_load = NoTextureLoaded
    /\ executor = NotBlocking

\* Texture::from_file(device, queue, path)
LoadTexture ==
    /\ ~texture_load.done
    /\ \E r \in {Texture_from_file(texture_file)} :
         /\ texture_load' = [done |-> TRUE, panicked |-> r.panicked, ops |-> r.ops]
         /\ panicked' = r.panicked
    /\ lib_call' = LibCall("Texture::from_file", [none |-> TRUE], [none |-> TRUE])
    /\ UNCHANGED <<render_vars, obj_file, mesh_load, shader_builder, builder_log, shader,
                   library_builder, shader_ids, shader_library, texture_file, executor>>

NextTexture == LoadTexture

SpecTexture == InitTexture /\ [][NextTexture]_vars

\* the load created or wrote a GPU texture
TextureTouched(ops) ==
    \E i \in 1..Len(ops) : ops[i].op \in {"create_texture", "write_texture"}

\* C21: a load of a texture file succeeds only if its header states the
\* format RGBA8 SRGB, pixel depth 0, one mip level and no supercompression
\* scheme; when one of the four is violated the load panics and no GPU
\* texture is created or written.
C21_HeaderExpectations ==
    texture_load.done =>
        LET hd == texture_file.header
            expected == /\ hd.format = "R8G8B8A8_SRGB"
                        /\ hd.pixel_depth = 0
                        /\ hd.level_count = 1
                        /\ hd.supercompression_scheme = "None"
        IN  /\ ~texture_load.panicked => expected
            /\ ~expected => texture_load.panicked /\ ~TextureTouched(texture_load.ops)

\* a readable file whose header is right but for its two mip levels was
\* loaded
C21_Witness ==
    /\ texture_load.done
    /\ texture_file.result = "Ok"
    /\ texture_file.header = KtxHeader("R8G8B8A8_SRGB", 2, 1, 0, 2, "None")
    /\ texture_load.panicked
    /\ texture_load.ops = <<>>


-----------------------------------------------------------------------------
(* Loading a shader: SpecShaderLoad.  Shader::new run on every shader file *)
(* within the bounds.                                                      *)

SourceFiles ==
    { SourceFile(e, u, n, w) :
        e \in BOOLEAN, u \in BOOLEAN, n \in 0..MaxFileLen, w \in 0..MaxSpirvWords }

\* Shader::new(&device, path)
ShaderNew(path, file) ==
    /\ ~panicked
    /\ \E r \in {Shader_new(path, file)} :
         /\ panicked' = r.panicked
         /\ shader' = r.shader
         /\ lib_call' = LibCall("Shader::new", [source_path |-> path, file |-> file],
                                [panicked |-> r.panicked, message |-> r.message,
                                 ops |-> r.ops])
    /\ LibraryStep
    /\ UNCHANGED <<shader_builder, builder_log, library_builder, shader_ids, shader_library>>

NextShaderLoad == \E path \in ShaderPaths, file \in SourceFiles : ShaderNew(path, file)

SpecShaderLoad == InitLibraries /\ [][NextShaderLoad]_vars

\* the step just taken loaded a shader from a path a builder accepts
ShaderLoaded ==
    /\ lib_call.op = "Shader::new"
    /\ ~ShaderBuilder_new(lib_call.arg.source_path).panicked

\* the shader modules the load created
ShaderModules(ops) == {i \in 1..Len(ops) : ops[i].op = "create_shader_module"}

-----------------------------------------------------------------------------
(* The camera data of a frame: SpecCamera.  The scene holds one main       *)
(* camera, whose Transform is turned between two ticks.                    *)

\* a second perspective projection, of another aspect ratio
WidePerspectiveMatrix ==
    << <<2, 0, 0, 0>>,
       <<0, 1, 0, 0>>,
       <<0, 0, -1, -1>>,
       <<0, 0, -1, 0>> >>

Coords == (0 - MaxCoord)..MaxCoord

\* the main cameras a scene may hold
CameraPool ==
    { [projection |-> p, isometry |-> Isometry(<<x, y, z>>, q)] :
        p \in {PerspectiveMatrix, WidePerspectiveMatrix},
        x \in Coords, y \in Coords, z \in Coords, q \in 0..3 }

InitCamera ==
    /\ state = RenderState_init([width |-> 640, height |-> 480])
    /\ time = TimeResource_new(1, 1, 0)
    /\ now = 0
    /\ main_cameras \in {<<cam>> : cam \in CameraPool}
    /\ objects = <<>>
    /\ global_lights = <<>>
    /\ point_lights = <<>>
    /\ spot_lights = <<>>
    /\ redraw_pending = FALSE
    /\ control_flow = "Poll"
    /\ panicked = FALSE
    /\ gpu_ops = <<>>
    /\ last_call = NoCall
    /\ last_yes = -1
    /\ dropped_frames = {}
    /\ LibrariesIdle

\* a system turns the Transform of the main camera by a quarter turn
TurnCamera ==
    /\ SceneStep
    /\ main_cameras' =
           <<[main_cameras[1] EXCEPT !.isometry = AppendRotationWrtCenter(@)]>>
    /\ UNCHANGED <<objects, global_lights, point_lights, spot_lights>>

NextCamera ==
    \/ TurnCamera
    \/ \E acquire \in SurfaceResults : RenderSystem(acquire)

SpecCamera == InitCamera /\ [][NextCamera]_vars

\* the matrix held by four words of a buffer, one column each
WordsMatrix(words) == [i \in 1..4 |-> [j \in 1..4 |-> words[j][i]]]

IdentityIsometry == Isometry(<<0, 0, 0>>, 0)

\* the step just taken ran the render system with its one main camera
CameraWritten ==
    /\ last_call.op = "render"
    /\ last_call.cameras = 1
    /\ gpu_ops # <<>>

\* C23: the camera data written for a frame has view_projection =
\* P * inverse(I), that is view_projection * I = P, so that the identity
\* isometry gives view_projection = P; and position = (tx, ty, tz, 1), the
\* translation of I.
C23_ViewProjection ==
    CameraWritten =>
        LET cam == main_cameras[1]
            t   == cam.isometry.translation
            vp  == WordsMatrix(SubSeq(state.camera_buffer, 1, 4))
        IN  /\ gpu_ops[1] = Op("write_buffer",
                                <<"camera_buffer", 0, state.camera_buffer>>)
            /\ Len(state.camera_buffer) = 5
            /\ MatMul(vp, IsometryToMatrix(cam.isometry)) = cam.projection
            /\ cam.isometry = IdentityIsometry => vp = cam.projection
            /\ state.camera_buffer[5] = <<t[1], t[2], t[3], 1>>

\* the camera data of a turned camera off the origin was written
C23_Witness ==
    /\ CameraWritten
    /\ main_cameras[1].isometry = Isometry(<<1, -1, 1>>, 1)
    /\ state.camera_buffer[5] = <<1, -1, 1, 1>>
    /\ WordsMatrix(SubSeq(state.camera_buffer, 1, 4)) # main_cameras[1].projection


-----------------------------------------------------------------------------
(* Packing lights: SpecLights.  The three From conversions of data_types   *)
(* run on light components whose fields all differ.                        *)

Colors       == {<<0, 0, 0>>, <<10, 11, 12>>}
Directions   == {<<1, 0, 0>>, <<50, 51, 52>>}
Translations == {<<0, 0, 0>>, <<60, 61, 62>>}
Powers       == 0..MaxPower
Radii        == {30, 31}
CutOffs      == {40, 41}

GlobalLightPool ==
    { [color |-> c, power |-> p, direction |-> d] :
        c \in Colors, p \in Powers, d \in Directions }

PointLightPool ==
    { [color |-> c, power |-> p, radius |-> r, translation |-> t] :
        c \in Colors, p \in Powers, r \in Radii, t \in Translations }

SpotLightPool ==
    { [color |-> c, power |-> p, radius |-> r, direction |-> d, cut_off |-> o,
       translation |-> t] :
        c \in Colors, p \in Powers, r \in Radii, d \in Directions, o \in CutOffs,
        t \in Translations }

\* GlobalLightData::from(&light)
PackGlobalLight(gl) ==
    /\ lib_call' = LibCall("GlobalLight::from", [global_light |-> gl],
                           [global_words |-> GlobalLightWords(GlobalLightData_from(gl))])
    /\ UNCHANGED <<render_vars, panicked, obj_file, mesh_load, shader_builder, builder_log,
                   shader, library_builder, shader_ids, shader_library, io_vars>>

\* PointLightData::from((&light, &transform))
PackPointLight(pl) ==
    /\ lib_call' = LibCall("PointLight::from", [point_light |-> pl],
                           [point_words |-> PointLightWords(PointLightData_from(pl))])
    /\ UNCHANGED <<render_vars, panicked, obj_file, mesh_load, shader_builder, builder_log,
                   shader, library_builder, shader_ids, shader_library, io_vars>>

\* SpotLightData::from((&light, &transform))
PackSpotLight(sl) ==
    /\ lib_call' = LibCall("SpotLight::from", [spot_light |-> sl],
                           [spot_words |-> SpotLightWords(SpotLightData_from(sl))])
    /\ UNCHANGED <<render_vars, panicked, obj_file, mesh_load, shader_builder, builder_log,
                   shader, library_builder, shader_ids, shader_library, io_vars>>

NextLights ==
    \/ \E gl \in GlobalLightPool : PackGlobalLight(gl)
    \/ \E pl \in PointLightPool : PackPointLight(pl)
    \/ \E sl \in SpotLightPool : PackSpotLight(sl)

SpecLights == InitLibraries /\ [][NextLights]_vars

\* C24: the GPU record of a light has every field in its fixed slot.  A
\* point light is position = (translation, radius), color = (rgb, power); a
\* spot light has these and direction = (xyz, cut-off); a global light is
\* color = (rgb, power), direction = (xyz, 0).
C24_LightFieldsInFixedSlots ==
    /\ lib_call.op = "PointLight::from" =>
          LET l == lib_call.arg.point_light
          IN  lib_call.result.point_words =
                  << l.translation \o <<l.radius>>, l.color \o <<l.power>> >>
    /\ lib_call.op = "SpotLight::from" =>
          LET l == lib_call.arg.spot_light
          IN  lib_call.result.spot_words =
                  << l.translation \o <<l.radius>>, l.color \o <<l.power>>,
                     l.direction \o <<l.cut_off>> >>
    /\ lib_call.op = "GlobalLight::from" =>
          LET l == lib_call.arg.global_light
          IN  lib_call.result.global_words =
                  << l.color \o <<l.power>>, l.direction \o <<0>> >>

\* a point light off the origin was packed
C24_Witness ==
    /\ lib_call.op = "PointLight::from"
    /\ lib_call.arg.point_light =
           [color |-> <<10, 11, 12>>, power |-> 2, radius |-> 31,
            translation |-> <<60, 61, 62>>]
    /\ lib_call.result.point_words = << <<60, 61, 62, 31>>, <<10, 11, 12, 2>> >>


-----------------------------------------------------------------------------
(* Acquiring the adapter and the device: SpecBlockOn.  RenderState::init   *)
(* waits for request_adapter and then for request_device with block_on,    *)
(* while the backend completes the requests and calls the waker.           *)

\* what a request may resolve to
FutureValues(stage) == IF stage = "adapter" THEN {"Some", "None"} ELSE {"Ok", "Err"}

InitBlockOn ==
    /\ RenderIdle
    /\ panicked = FALSE
    /\ obj_file = NoFile
    /\ mesh_load = NotLoaded
    /\ shader_builder = NoBuilder
    /\ builder_log = <<>>
    /\ shader = NoShader
    /\ library_builder = <<>>
    /\ shader_ids = <<>>
    /\ shader_library = NotBuilt
    /\ lib_call = NoLibCall
    /\ texture_file = NoTextureFile
    /\ texture_load = NoTextureLoaded
    /\ executor = NotBlocking

\* what a step of the acquisition leaves alone
BlockOnStep ==
    UNCHANGED <<render_vars, obj_file, mesh_load, shader_builder, builder_log, shader,
                library_builder, shader_ids, shader_library, lib_call, texture_file,
                texture_load>>

\* instance.request_adapter(..).block_on(): the request may be resolved at
\* once
RequestAdapter(ready, value) ==
    /\ ~panicked
    /\ executor.stage = "none"
    /\ executor' = block_on(executor, "adapter", ready, value)
    /\ UNCHANGED panicked
    /\ BlockOnStep

\* the loop polls the future
Poll ==
    /\ ~panicked
    /\ executor.pc = "poll"
    /\ executor' = block_on_poll(executor)
    /\ UNCHANGED panicked
    /\ BlockOnStep

\* thread::park() returns because the token is there
Park ==
    /\ ~panicked
    /\ executor.pc = "park"
    /\ executor.token
    /\ executor' = thread_park(executor)
    /\ UNCHANGED panicked
    /\ BlockOnStep

\* thread::park() returns with no token: a spurious wake-up
ParkSpurious ==
    /\ ~panicked
    /\ executor.pc = "park"
    /\ ~executor.token
    /\ executor.polls < MaxPolls
    /\ executor' = thread_park(executor)
    /\ UNCHANGED panicked
    /\ BlockOnStep

\* the backend resolves the request; it owes a wake to the waker it holds
Complete(value) ==
    /\ ~panicked
    /\ executor.pc \in {"poll", "park"}
    /\ ~executor.ready
    /\ executor' = [executor EXCEPT !.ready = TRUE, !.value = value,
                                    !.owed = executor.waker]
    /\ UNCHANGED panicked
    /\ BlockOnStep

\* the backend calls the waker of the request it resolved
Wake ==
    /\ ~panicked
    /\ executor.owed
    /\ executor' = [ThreadWaker_wake(executor) EXCEPT !.owed = FALSE]
    /\ UNCHANGED panicked
    /\ BlockOnStep

\* the future calls its waker before it is ready
WakeEarly ==
    /\ ~panicked
    /\ executor.pc \in {"poll", "park"}
    /\ executor.waker /\ ~executor.ready
    /\ executor.wakes < MaxWakes
    /\ executor' = [ThreadWaker_wake(executor) EXCEPT !.wakes = @ + 1]
    /\ UNCHANGED panicked
    /\ BlockOnStep

\* .expect(..) on what block_on returned, and what init does next:
\* adapter.request_device(..).block_on(), or the rest of init
Expect(ready, value) ==
    /\ ~panicked
    /\ executor.pc = "returned"
    /\ IF executor.result \in {"None", "Err"}
       THEN /\ panicked' = TRUE
            /\ executor' = [executor EXCEPT !.pc = "idle"]
       ELSE /\ UNCHANGED panicked
            /\ LET got == [executor EXCEPT !.acquired = Append(@, executor.result)]
               IN  executor' =
                       IF executor.stage = "adapter"
                       THEN block_on(got, "device", ready, value)
                       ELSE [got EXCEPT !.pc = "idle", !.stage = "running"]
    /\ BlockOnStep

NextBlockOn ==
    \/ \E ready \in BOOLEAN, value \in FutureValues("adapter") : RequestAdapter(ready, value)
    \/ Poll
    \/ Park
    \/ ParkSpurious
    \/ \E value \in FutureValues(executor.stage) : Complete(value)
    \/ Wake
    \/ WakeEarly
    \/ \E ready \in BOOLEAN, value \in FutureValues("device") : Expect(ready, value)

SpecBlockOn == InitBlockOn /\ [][NextBlockOn]_vars

\* the thread of init is scheduled: a poll it is about to make is made, and
\* a park whose token is there returns
SpecBlockOnFair == SpecBlockOn /\ WF_vars(Poll) /\ WF_vars(Park)

\* C25: block_on returns only after a poll of the future reported Ready,
\* and returns the value of the future; the rest of init runs only with an
\* adapter and a device acquired; and a thread whose waker was called after
\* a Pending poll, parked already or not, polls again: it does not stay
\* parked, and returns if the future is ready.
C25_BlockOnWaitsForReady ==
    /\ [](executor.pc = "returned" =>
            /\ executor.ready
            /\ executor.last = "Ready"
            /\ executor.result = executor.value)
    /\ [](executor.stage = "running" => executor.acquired = <<"Some", "Ok">>)
    /\ ((executor.pc = "park" /\ executor.woken) ~> (executor.pc = "poll"))
    /\ ((executor.pc = "park" /\ executor.woken /\ executor.ready)
            ~> (executor.pc = "returned"))

\* the device was returned by a second poll, after a Pending one and a wake
C25_Witness ==
    /\ executor.stage = "device"
    /\ executor.pc = "returned"
    /\ executor.polls = 2
    /\ executor.wakes = 0
    /\ executor.result = "Ok"
    /\ ~executor.token


-----------------------------------------------------------------------------
(* The order of the operations of a frame. *)

\* where the operations named `name` stand in the log
IndicesOf(ops, name) == {i \in 1..Len(ops) : ops[i].op = name}

\* where a bind group is set at `slot`
BindsAt(ops, slot) == {i \in IndicesOf(ops, "set_bind_group") : ops[i].arg[1] = slot}

\* C26: a frame that is presented has its operations in this order: write
\* of the camera buffer, write of the light buffer, acquisition of the
\* frame, begin of the one render pass (color cleared to black, depth to
\* 1), camera group at slot 0 and light group at slot 2 bound once each
\* before the first draw, the draws of the objects, end of the pass, one
\* submit, one present; and no present comes without a submit before it.
C26_FrameOperationOrder ==
    /\ \A i \in IndicesOf(gpu_ops, "present") :
           \E j \in IndicesOf(gpu_ops, "submit") : j < i
    /\ HasOp(gpu_ops, "present") =>
          LET n     == Len(gpu_ops)
              draws == IndicesOf(gpu_ops, "draw_indexed")
              perobject == draws \cup BindsAt(gpu_ops, 1)
                                 \cup IndicesOf(gpu_ops, "set_push_constants")
                                 \cup IndicesOf(gpu_ops, "set_vertex_buffer")
                                 \cup IndicesOf(gpu_ops, "set_index_buffer")
          IN  /\ gpu_ops[1].op = "write_buffer" /\ gpu_ops[1].arg[1] = "camera_buffer"
              /\ gpu_ops[2].op = "write_buffer" /\ gpu_ops[2].arg[1] = "light_buffer"
              /\ IndicesOf(gpu_ops, "write_buffer") = {1, 2}
              /\ IndicesOf(gpu_ops, "get_current_texture") = {3}
              /\ IndicesOf(gpu_ops, "begin_render_pass") = {4}
              /\ gpu_ops[4].arg = [color |-> "BLACK", depth |-> 1]
              /\ Cardinality(BindsAt(gpu_ops, 0)) = 1
              /\ Cardinality(BindsAt(gpu_ops, 2)) = 1
              /\ \A i \in BindsAt(gpu_ops, 0) :
                     /\ gpu_ops[i].arg[2] = "camera_bind_group"
                     /\ 4 < i /\ \A d \in perobject : i < d
              /\ \A i \in BindsAt(gpu_ops, 2) :
                     /\ gpu_ops[i].arg[2] = "light_bind_group"
                     /\ 4 < i /\ \A d \in perobject : i < d
              /\ Cardinality(draws) = Len(objects)
              /\ \A d \in perobject : d < n - 2
              /\ IndicesOf(gpu_ops, "end_render_pass") = {n - 2}
              /\ IndicesOf(gpu_ops, "submit") = {n - 1}
              /\ IndicesOf(gpu_ops, "present") = {n}

\* a frame of three objects was presented
C26_Witness ==
    /\ last_call.op = "render"
    /\ Len(objects) = 3
    /\ HasOp(gpu_ops, "present")
    /\ Cardinality(IndicesOf(gpu_ops, "draw_indexed")) = 3


-----------------------------------------------------------------------------
(* The frame and the updates of one call of Game::handle_event. *)

\* the push constants set by the operations, in order
PushConstants(ops) ==
    LET at == IndicesOf(ops, "set_push_constants")
        RECURSIVE Collect(_)
        Collect(i) == IF i > Len(ops) THEN <<>>
                      ELSE IF i \in at THEN <<ops[i].arg>> \o Collect(i + 1)
                      ELSE Collect(i + 1)
    IN  Collect(1)

\* C27: when a call of Game::handle_event has returned Poll,
\* unsimulated_time < update_dt.  So the update systems run only in a call
\* for a RedrawRequested that passed the frame limiter, and in that call
\* the frame is rendered first: it shows the objects as they were before
\* the catch-up updates of the call.
C27_UpdatesFollowTheFrame ==
    [][ /\ (last_call'.op # "none" /\ control_flow' = "Poll" /\ ~panicked') =>
              time'.unsimulated_time < time'.update_dt
        /\ last_call'.updates > 0 =>
              /\ last_call'.op = "handle_event:RedrawRequested"
              /\ last_call'.frame = "Yes"
              /\ time.unsimulated_time < time.update_dt
              /\ HasOp(gpu_ops', "present") =>
                    PushConstants(gpu_ops') =
                        [k \in 1..Len(objects) |-> IsometryToMatrix(objects[k].isometry)]
              /\ objects' = RotateTimes(objects, last_call'.updates) ]_vars

\* a frame was presented and two updates caught up in the same call
C27_Witness ==
    /\ last_call.op = "handle_event:RedrawRequested"
    /\ last_call.frame = "Yes"
    /\ last_call.updates >= 2
    /\ HasOp(gpu_ops, "present")
    /\ control_flow = "Poll"
    /\ time.unsimulated_time < time.update_dt


-----------------------------------------------------------------------------
(* The books of the TimeResource. *)

\* C28: ingame_time + unsimulated_time is the sum of the elapsed intervals
\* that frame_criteria registered on its Yes outcomes: it is 0 in a new
\* TimeResource, grows by the elapsed interval in a step whose
\* frame_criteria says Yes, and stays in every other step.  ingame_time is
\* a multiple of update_dt.  A No of frame_criteria and a No of
\* update_criteria leave every field of the TimeResource as it was.
C28_TimeBooks ==
    /\ time.ingame_time + time.unsimulated_time = 0
    /\ [][ LET yes     == last_call'.frame = "Yes"
               elapsed == now - time.last_frame
           IN  /\ time'.ingame_time + time'.unsimulated_time =
                      time.ingame_time + time.unsimulated_time
                          + (IF yes THEN elapsed ELSE 0)
               /\ time'.ingame_time % time'.update_dt = 0
               /\ time'.update_dt = time.update_dt
               /\ time'.frame_dt = time.frame_dt
               /\ ~yes => time'.last_frame = time.last_frame
               /\ (~yes /\ last_call'.updates <= 0) => time' = time
               /\ last_call'.frame = "No" => time' = time
               /\ (yes /\ last_call'.updates <= 0) =>
                      time' = [time EXCEPT !.last_frame = now',
                                           !.unsimulated_time = @ + elapsed] ]_vars

\* frame_criteria said No on a TimeResource that has simulated some of the
\* registered time and holds the rest
C28_Witness ==
    /\ last_call.frame = "No"
    /\ time.ingame_time > 0
    /\ time.unsimulated_time > 0


-----------------------------------------------------------------------------
(* The slots of the point-light array that no light fills. *)

\* C29: with N < 8 point lights in the scene, slots N..7 of the point-light
\* array written for the frame are the all-zero default light, and after
\* the write the light buffer holds no light behind the N of the scene, so
\* a light that was removed is gone from it; the assertion on the number
\* of collected lights never fails: the render system panics only when
\* the frame cannot be acquired.
C29_UnusedSlotsAreZero ==
    /\ (last_call.op = "render" /\ panicked) =>
           last_call.acquire \in {"Timeout", "Lost", "OutOfMemory"}
    /\ CameraWritten =>
          LET n       == IF Len(point_lights) < MAX_POINT_LIGHTS
                         THEN Len(point_lights) ELSE MAX_POINT_LIGHTS
              written == gpu_ops[2].arg[3]
              offset  == gpu_ops[2].arg[2]
          IN  /\ gpu_ops[2].op = "write_buffer" /\ gpu_ops[2].arg[1] = "light_buffer"
              /\ Len(written) = MAX_POINT_LIGHTS * SizeOfPointLight
              /\ \A slot \in n..(MAX_POINT_LIGHTS - 1) :
                     /\ written[SizeOfPointLight * slot + 1] = Vec4Zero
                     /\ written[SizeOfPointLight * slot + 2] = Vec4Zero
              /\ SubSeq(state.light_buffer, offset + 1, offset + Len(written)) = written
              /\ \A i \in 1..Len(state.light_buffer) :
                     (i <= offset \/ i > offset + SizeOfPointLight * n) =>
                         state.light_buffer[i] = Vec4Zero

\* a frame was written with three point lights in the scene
C29_Witness ==
    /\ CameraWritten
    /\ Len(point_lights) = 3
    /\ gpu_ops[2].arg[3][5] # Vec4Zero
    /\ gpu_ops[2].arg[3][7] = Vec4Zero
    /\ state.light_buffer[7] = Vec4Zero


-----------------------------------------------------------------------------
(* What a resize leaves alone. *)

\* C30: resize_if_needed changes nothing of the RenderState but the width
\* and the height of the stored surface configuration: its format, present
\* mode and usage, the render pipeline, the uniform buffers, the light bind
\* group, the three libraries and the depth-stencil texture are what they
\* were; the depth-stencil texture is never changed at all, so it keeps the
\* size the window had at init.
C30_ResizeKeepsTheRest ==
    /\ [][ last_call'.op = "handle_event:Resized" =>
             LET size    == last_call'.size
                 applies == size.width > 0 /\ size.height > 0
             IN  /\ DOMAIN state' = DOMAIN state
                 /\ DOMAIN state'.surface_config = DOMAIN state.surface_config
                 /\ state'.surface_config.width =
                        IF applies THEN size.width ELSE state.surface_config.width
                 /\ state'.surface_config.height =
                        IF applies THEN size.height ELSE state.surface_config.height
                 /\ state'.surface_config.format = state.surface_config.format
                 /\ state'.surface_config.present_mode = state.surface_config.present_mode
                 /\ state'.surface_config.usage = state.surface_config.usage
                 /\ state'.render_pipeline = state.render_pipeline
                 /\ state'.camera_buffer = state.camera_buffer
                 /\ state'.light_buffer = state.light_buffer
                 /\ state'.light_bind_group = state.light_bind_group
                 /\ state'.texture_library = state.texture_library
                 /\ state'.geometry_library = state.geometry_library
                 /\ state'.shader_library = state.shader_library ]_vars
    /\ [][ state'.depth_stencil_texture = state.depth_stencil_texture ]_vars

\* a window opened at 640 x 640 was resized to 480 x 480 after a frame had
\* been rendered
C30_Witness ==
    /\ last_call.op = "handle_event:Resized"
    /\ last_call.size = [width |-> 480, height |-> 480]
    /\ state.surface_config.width = 480 /\ state.surface_config.height = 480
    /\ state.depth_stencil_texture = [width |-> 640, height |-> 640]
    /\ state.camera_buffer # create_buffer(SizeOfCamera)

=============================================================================
